---- MODULE Spec2Model ----
(***************************************************************************)
(* hackerslides: the line-oriented parser (src/hackerslides/parser.py) and  *)
(* the two pipelines that turn its presentation into images: the renderer   *)
(* (renderer.py) and the formatter with its executor (formatter.py,         *)
(* executor.py).                                                            *)
(*                                                                         *)
(* A str of the program is a sequence of characters.  A character is a     *)
(* string: the character itself when it is printable ASCII or one of "\t",  *)
(* "\n", "\f", "\r", and "U+XXXX" (the code point in hexadecimal) for    *)
(* every other code point.  An Optional[...] field is <<>> (None) or       *)
(* <<v>>, and a raised exception is a record whose type names the          *)
(* exception.                                                              *)
(***************************************************************************)
EXTENDS Integers, Sequences, FiniteSets, TLC

VARIABLES source, pc, lines, parsed_lines, chunks,
          presentation_default_slide_options, slides, result,
          configuration, out, rpc, renders, slide_index, image_size,
          available_fonts, commands, command_index, calls, raised

parser_vars == <<source, pc, lines, parsed_lines, chunks,
                 presentation_default_slide_options, slides, result>>

\* the state of the pipelines that follow parse()
renderer_vars == <<configuration, out, rpc, renders, slide_index, image_size,
                   available_fonts, commands, command_index, calls, raised>>

vars == <<source, pc, lines, parsed_lines, chunks,
          presentation_default_slide_options, slides, result,
          configuration, out, rpc, renders, slide_index, image_size,
          available_fonts, commands, command_index, calls, raised>>

(***************************************************************************)
(* Python built-ins used by the parser and the renderer.                   *)
(***************************************************************************)
None == <<>>

Some(v) == <<v>>

\* the characters str.isspace() is true of: the whitespace of str.strip(),
\* str.split() and of \s in a str pattern
Whitespace ==
    {"\t", "\n", "U+000B", "\f", "\r", "U+001C", "U+001D", "U+001E", "U+001F", " ",
     "U+0085", "U+00A0", "U+1680", "U+2000", "U+2001", "U+2002", "U+2003", "U+2004",
     "U+2005", "U+2006", "U+2007", "U+2008", "U+2009", "U+200A", "U+2028", "U+2029",
     "U+202F", "U+205F", "U+3000"}

\* the whitespace of the ASCII range that float() and int() skip at both ends
AsciiSpace == {" ", "\t", "\n", "U+000B", "\f", "\r"}

\* the line boundaries of str.splitlines(); "\r" followed by "\n" is one boundary
LineBoundaries ==
    {"\n", "U+000B", "\f", "\r", "U+001C", "U+001D", "U+001E", "U+0085", "U+2028", "U+2029"}

AsciiDigits == <<"0", "1", "2", "3", "4", "5", "6", "7", "8", "9">>

\* the decimal digits float() and int() read (Unicode category Nd), one row per
\* script, the digits 0 to 9 of a row in order
UnicodeDigits ==
    <<AsciiDigits,
      <<"U+0660", "U+0661", "U+0662", "U+0663", "U+0664", "U+0665", "U+0666", "U+0667", "U+0668", "U+0669">>,
      <<"U+06F0", "U+06F1", "U+06F2", "U+06F3", "U+06F4", "U+06F5", "U+06F6", "U+06F7", "U+06F8", "U+06F9">>,
      <<"U+07C0", "U+07C1", "U+07C2", "U+07C3", "U+07C4", "U+07C5", "U+07C6", "U+07C7", "U+07C8", "U+07C9">>,
      <<"U+0966", "U+0967", "U+0968", "U+0969", "U+096A", "U+096B", "U+096C", "U+096D", "U+096E", "U+096F">>,
      <<"U+09E6", "U+09E7", "U+09E8", "U+09E9", "U+09EA", "U+09EB", "U+09EC", "U+09ED", "U+09EE", "U+09EF">>,
      <<"U+0A66", "U+0A67", "U+0A68", "U+0A69", "U+0A6A", "U+0A6B", "U+0A6C", "U+0A6D", "U+0A6E", "U+0A6F">>,
      <<"U+0AE6", "U+0AE7", "U+0AE8", "U+0AE9", "U+0AEA", "U+0AEB", "U+0AEC", "U+0AED", "U+0AEE", "U+0AEF">>,
      <<"U+0B66", "U+0B67", "U+0B68", "U+0B69", "U+0B6A", "U+0B6B", "U+0B6C", "U+0B6D", "U+0B6E", "U+0B6F">>,
      <<"U+0BE6", "U+0BE7", "U+0BE8", "U+0BE9", "U+0BEA", "U+0BEB", "U+0BEC", "U+0BED", "U+0BEE", "U+0BEF">>,
      <<"U+0C66", "U+0C67", "U+0C68", "U+0C69", "U+0C6A", "U+0C6B", "U+0C6C", "U+0C6D", "U+0C6E", "U+0C6F">>,
      <<"U+0CE6", "U+0CE7", "U+0CE8", "U+0CE9", "U+0CEA", "U+0CEB", "U+0CEC", "U+0CED", "U+0CEE", "U+0CEF">>,
      <<"U+0D66", "U+0D67", "U+0D68", "U+0D69", "U+0D6A", "U+0D6B", "U+0D6C", "U+0D6D", "U+0D6E", "U+0D6F">>,
      <<"U+0DE6", "U+0DE7", "U+0DE8", "U+0DE9", "U+0DEA", "U+0DEB", "U+0DEC", "U+0DED", "U+0DEE", "U+0DEF">>,
      <<"U+0E50", "U+0E51", "U+0E52", "U+0E53", "U+0E54", "U+0E55", "U+0E56", "U+0E57", "U+0E58", "U+0E59">>,
      <<"U+0ED0", "U+0ED1", "U+0ED2", "U+0ED3", "U+0ED4", "U+0ED5", "U+0ED6", "U+0ED7", "U+0ED8", "U+0ED9">>,
      <<"U+0F20", "U+0F21", "U+0F22", "U+0F23", "U+0F24", "U+0F25", "U+0F26", "U+0F27", "U+0F28", "U+0F29">>,
      <<"U+1040", "U+1041", "U+1042", "U+1043", "U+1044", "U+1045", "U+1046", "U+1047", "U+1048", "U+1049">>,
      <<"U+1090", "U+1091", "U+1092", "U+1093", "U+1094", "U+1095", "U+1096", "U+1097", "U+1098", "U+1099">>,
      <<"U+17E0", "U+17E1", "U+17E2", "U+17E3", "U+17E4", "U+17E5", "U+17E6", "U+17E7", "U+17E8", "U+17E9">>,
      <<"U+1810", "U+1811", "U+1812", "U+1813", "U+1814", "U+1815", "U+1816", "U+1817", "U+1818", "U+1819">>,
      <<"U+1946", "U+1947", "U+1948", "U+1949", "U+194A", "U+194B", "U+194C", "U+194D", "U+194E", "U+194F">>,
      <<"U+19D0", "U+19D1", "U+19D2", "U+19D3", "U+19D4", "U+19D5", "U+19D6", "U+19D7", "U+19D8", "U+19D9">>,
      <<"U+1A80", "U+1A81", "U+1A82", "U+1A83", "U+1A84", "U+1A85", "U+1A86", "U+1A87", "U+1A88", "U+1A89">>,
      <<"U+1A90", "U+1A91", "U+1A92", "U+1A93", "U+1A94", "U+1A95", "U+1A96", "U+1A97", "U+1A98", "U+1A99">>,
      <<"U+1B50", "U+1B51", "U+1B52", "U+1B53", "U+1B54", "U+1B55", "U+1B56", "U+1B57", "U+1B58", "U+1B59">>,
      <<"U+1BB0", "U+1BB1", "U+1BB2", "U+1BB3", "U+1BB4", "U+1BB5", "U+1BB6", "U+1BB7", "U+1BB8", "U+1BB9">>,
      <<"U+1C40", "U+1C41", "U+1C42", "U+1C43", "U+1C44", "U+1C45", "U+1C46", "U+1C47", "U+1C48", "U+1C49">>,
      <<"U+1C50", "U+1C51", "U+1C52", "U+1C53", "U+1C54", "U+1C55", "U+1C56", "U+1C57", "U+1C58", "U+1C59">>,
      <<"U+A620", "U+A621", "U+A622", "U+A623", "U+A624", "U+A625", "U+A626", "U+A627", "U+A628", "U+A629">>,
      <<"U+A8D0", "U+A8D1", "U+A8D2", "U+A8D3", "U+A8D4", "U+A8D5", "U+A8D6", "U+A8D7", "U+A8D8", "U+A8D9">>,
      <<"U+A900", "U+A901", "U+A902", "U+A903", "U+A904", "U+A905", "U+A906", "U+A907", "U+A908", "U+A909">>,
      <<"U+A9D0", "U+A9D1", "U+A9D2", "U+A9D3", "U+A9D4", "U+A9D5", "U+A9D6", "U+A9D7", "U+A9D8", "U+A9D9">>,
      <<"U+A9F0", "U+A9F1", "U+A9F2", "U+A9F3", "U+A9F4", "U+A9F5", "U+A9F6", "U+A9F7", "U+A9F8", "U+A9F9">>,
      <<"U+AA50", "U+AA51", "U+AA52", "U+AA53", "U+AA54", "U+AA55", "U+AA56", "U+AA57", "U+AA58", "U+AA59">>,
      <<"U+ABF0", "U+ABF1", "U+ABF2", "U+ABF3", "U+ABF4", "U+ABF5", "U+ABF6", "U+ABF7", "U+ABF8", "U+ABF9">>,
      <<"U+FF10", "U+FF11", "U+FF12", "U+FF13", "U+FF14", "U+FF15", "U+FF16", "U+FF17", "U+FF18", "U+FF19">>,
      <<"U+104A0", "U+104A1", "U+104A2", "U+104A3", "U+104A4", "U+104A5", "U+104A6", "U+104A7", "U+104A8", "U+104A9">>,
      <<"U+10D30", "U+10D31", "U+10D32", "U+10D33", "U+10D34", "U+10D35", "U+10D36", "U+10D37", "U+10D38", "U+10D39">>,
      <<"U+11066", "U+11067", "U+11068", "U+11069", "U+1106A", "U+1106B", "U+1106C", "U+1106D", "U+1106E", "U+1106F">>,
      <<"U+110F0", "U+110F1", "U+110F2", "U+110F3", "U+110F4", "U+110F5", "U+110F6", "U+110F7", "U+110F8", "U+110F9">>,
      <<"U+11136", "U+11137", "U+11138", "U+11139", "U+1113A", "U+1113B", "U+1113C", "U+1113D", "U+1113E", "U+1113F">>,
      <<"U+111D0", "U+111D1", "U+111D2", "U+111D3", "U+111D4", "U+111D5", "U+111D6", "U+111D7", "U+111D8", "U+111D9">>,
      <<"U+112F0", "U+112F1", "U+112F2", "U+112F3", "U+112F4", "U+112F5", "U+112F6", "U+112F7", "U+112F8", "U+112F9">>,
      <<"U+11450", "U+11451", "U+11452", "U+11453", "U+11454", "U+11455", "U+11456", "U+11457", "U+11458", "U+11459">>,
      <<"U+114D0", "U+114D1", "U+114D2", "U+114D3", "U+114D4", "U+114D5", "U+114D6", "U+114D7", "U+114D8", "U+114D9">>,
      <<"U+11650", "U+11651", "U+11652", "U+11653", "U+11654", "U+11655", "U+11656", "U+11657", "U+11658", "U+11659">>,
      <<"U+116C0", "U+116C1", "U+116C2", "U+116C3", "U+116C4", "U+116C5", "U+116C6", "U+116C7", "U+116C8", "U+116C9">>,
      <<"U+11730", "U+11731", "U+11732", "U+11733", "U+11734", "U+11735", "U+11736", "U+11737", "U+11738", "U+11739">>,
      <<"U+118E0", "U+118E1", "U+118E2", "U+118E3", "U+118E4", "U+118E5", "U+118E6", "U+118E7", "U+118E8", "U+118E9">>,
      <<"U+11950", "U+11951", "U+11952", "U+11953", "U+11954", "U+11955", "U+11956", "U+11957", "U+11958", "U+11959">>,
      <<"U+11C50", "U+11C51", "U+11C52", "U+11C53", "U+11C54", "U+11C55", "U+11C56", "U+11C57", "U+11C58", "U+11C59">>,
      <<"U+11D50", "U+11D51", "U+11D52", "U+11D53", "U+11D54", "U+11D55", "U+11D56", "U+11D57", "U+11D58", "U+11D59">>,
      <<"U+11DA0", "U+11DA1", "U+11DA2", "U+11DA3", "U+11DA4", "U+11DA5", "U+11DA6", "U+11DA7", "U+11DA8", "U+11DA9">>,
      <<"U+16A60", "U+16A61", "U+16A62", "U+16A63", "U+16A64", "U+16A65", "U+16A66", "U+16A67", "U+16A68", "U+16A69">>,
      <<"U+16AC0", "U+16AC1", "U+16AC2", "U+16AC3", "U+16AC4", "U+16AC5", "U+16AC6", "U+16AC7", "U+16AC8", "U+16AC9">>,
      <<"U+16B50", "U+16B51", "U+16B52", "U+16B53", "U+16B54", "U+16B55", "U+16B56", "U+16B57", "U+16B58", "U+16B59">>,
      <<"U+1D7CE", "U+1D7CF", "U+1D7D0", "U+1D7D1", "U+1D7D2", "U+1D7D3", "U+1D7D4", "U+1D7D5", "U+1D7D6", "U+1D7D7">>,
      <<"U+1D7D8", "U+1D7D9", "U+1D7DA", "U+1D7DB", "U+1D7DC", "U+1D7DD", "U+1D7DE", "U+1D7DF", "U+1D7E0", "U+1D7E1">>,
      <<"U+1D7E2", "U+1D7E3", "U+1D7E4", "U+1D7E5", "U+1D7E6", "U+1D7E7", "U+1D7E8", "U+1D7E9", "U+1D7EA", "U+1D7EB">>,
      <<"U+1D7EC", "U+1D7ED", "U+1D7EE", "U+1D7EF", "U+1D7F0", "U+1D7F1", "U+1D7F2", "U+1D7F3", "U+1D7F4", "U+1D7F5">>,
      <<"U+1D7F6", "U+1D7F7", "U+1D7F8", "U+1D7F9", "U+1D7FA", "U+1D7FB", "U+1D7FC", "U+1D7FD", "U+1D7FE", "U+1D7FF">>,
      <<"U+1E140", "U+1E141", "U+1E142", "U+1E143", "U+1E144", "U+1E145", "U+1E146", "U+1E147", "U+1E148", "U+1E149">>,
      <<"U+1E2F0", "U+1E2F1", "U+1E2F2", "U+1E2F3", "U+1E2F4", "U+1E2F5", "U+1E2F6", "U+1E2F7", "U+1E2F8", "U+1E2F9">>,
      <<"U+1E950", "U+1E951", "U+1E952", "U+1E953", "U+1E954", "U+1E955", "U+1E956", "U+1E957", "U+1E958", "U+1E959">>,
      <<"U+1FBF0", "U+1FBF1", "U+1FBF2", "U+1FBF3", "U+1FBF4", "U+1FBF5", "U+1FBF6", "U+1FBF7", "U+1FBF8", "U+1FBF9">>>>

\* the value of an ASCII digit
DigitValue(c) == CHOOSE k \in 0..9 : AsciiDigits[k + 1] = c

startswith(s, c) == Len(s) > 0 /\ s[1] = c

\* s[1:]
DropFirst(s) == SubSeq(s, 2, Len(s))

RECURSIVE splitlines(_)
splitlines(s) ==
    IF s = <<>> THEN <<>>
    ELSE IF \E i \in 1..Len(s) : s[i] \in LineBoundaries
         THEN LET n == CHOOSE i \in 1..Len(s) :
                           s[i] \in LineBoundaries /\ \A j \in 1..(i - 1) : s[j] \notin LineBoundaries
                  m == IF s[n] = "\r" /\ n < Len(s) /\ s[n + 1] = "\n" THEN n + 1 ELSE n
              IN  <<SubSeq(s, 1, n - 1)>> \o splitlines(SubSeq(s, m + 1, Len(s)))
         ELSE <<s>>

RECURSIVE lstrip(_)
lstrip(s) == IF s # <<>> /\ s[1] \in Whitespace THEN lstrip(Tail(s)) ELSE s

RECURSIVE rstrip(_)
rstrip(s) ==
    IF s # <<>> /\ s[Len(s)] \in Whitespace THEN rstrip(SubSeq(s, 1, Len(s) - 1)) ELSE s

strip(s) == rstrip(lstrip(s))

\* str.split() without arguments: the maximal runs of non-whitespace characters
RECURSIVE split(_)
split(s) ==
    LET t == lstrip(s)
    IN  IF t = <<>> THEN <<>>
        ELSE LET n == CHOOSE i \in 1..Len(t) :
                          /\ \A j \in 1..i : t[j] \notin Whitespace
                          /\ (i = Len(t) \/ t[i + 1] \in Whitespace)
             IN  <<SubSeq(t, 1, n)>> \o split(SubSeq(t, n + 1, Len(t)))

\* sep.join(xs)
RECURSIVE join(_, _)
join(sep, xs) ==
    IF xs = <<>> THEN <<>>
    ELSE IF Len(xs) = 1 THEN xs[1]
    ELSE xs[1] \o sep \o join(sep, Tail(xs))

(***************************************************************************)
(* Numbers.  An int of the program is a TLC integer; an int beyond 32 bits *)
(* is not computed.  A float is the IEEE 754 double the program holds,     *)
(* <<s, m, e>> with the value s * m * 2^e: s is the sign (-1, 0 or 1), e   *)
(* the exponent of the last bit set and m the odd natural of the bits up   *)
(* to it, at most 53 of them.  A natural is the sequence of its limbs in   *)
(* base 2^15, the least significant first, without a zero at its end: 0    *)
(* is <<>>, 4.4 is <<1, <<19661, 6553, 13107, 70>>, -49>>, 1920 is        *)
(* <<1, <<15>>, 7>>.  Zero is <<0, <<>>, 0>> (-0.0 is not told from 0.0),  *)
(* and as in the encoding of a double the exponent above the largest one   *)
(* marks inf, -inf (<<1, <<>>, 1024>>, <<-1, <<>>, 1024>>) and nan         *)
(* (<<0, <<>>, 1024>>).  Every operation gives the double nearest to the   *)
(* exact result, a tie going to the even mantissa.  An int used where the  *)
(* program computes with floats is converted first (Num).                  *)
(***************************************************************************)
Abs(n) == IF n < 0 THEN -n ELSE n

Sign(n) == IF n < 0 THEN -1 ELSE IF n > 0 THEN 1 ELSE 0

Base == 32768

\* the limbs of the natural n
RECURSIVE Limbs(_)
Limbs(n) == IF n = 0 THEN <<>> ELSE <<n % Base>> \o Limbs(n \div Base)

\* the natural of limbs that fits an int
RECURSIVE IntOf(_)
IntOf(x) == IF x = <<>> THEN 0 ELSE x[1] + Base * IntOf(Tail(x))

\* x without the zero limbs at its end; a long x by halves, which bounds the
\* depth of the recursion
RECURSIVE Trim(_)
Trim(x) ==
    LET Halves(n) ==
            IF \A i \in (n + 1)..Len(x) : x[i] = 0 THEN Trim(SubSeq(x, 1, n))
            ELSE SubSeq(x, 1, n) \o Trim(SubSeq(x, n + 1, Len(x)))
    IN  IF x = <<>> \/ x[Len(x)] # 0 THEN x
        ELSE IF Len(x) <= 8 THEN Trim(SubSeq(x, 1, Len(x) - 1))
        ELSE Halves(Len(x) \div 2)

\* the Len(x) + 1 limbs of x * k + c for columns x[i] below twice the base, k
\* below the base and a carry c; a long x by halves
RECURSIVE Columns(_, _, _)
Columns(x, k, c) ==
    LET High(low, n) == SubSeq(low, 1, n) \o Columns(SubSeq(x, n + 1, Len(x)), k, low[n + 1])
        Halves(n) == High(Columns(SubSeq(x, 1, n), k, c), n)
    IN  IF x = <<>> THEN <<c>>
        ELSE IF Len(x) <= 8
        THEN <<(x[1] * k + c) % Base>> \o Columns(Tail(x), k, (x[1] * k + c) \div Base)
        ELSE Halves(Len(x) \div 2)

\* x * k + c for naturals k and c below the base
MulAdd(x, k, c) == Trim(Columns(x, k, c))

\* -1, 0 or 1 as x is below, equal to or above y; long x and y by halves
RECURSIVE Cmp(_, _)
Cmp(x, y) ==
    LET Halves(n) ==
            IF SubSeq(x, n + 1, Len(x)) = SubSeq(y, n + 1, Len(y))
            THEN Cmp(SubSeq(x, 1, n), SubSeq(y, 1, n))
            ELSE Cmp(SubSeq(x, n + 1, Len(x)), SubSeq(y, n + 1, Len(y)))
    IN  IF Len(x) # Len(y) THEN (IF Len(x) < Len(y) THEN -1 ELSE 1)
        ELSE IF x = y THEN 0
        ELSE IF x[Len(x)] # y[Len(y)] THEN (IF x[Len(x)] < y[Len(y)] THEN -1 ELSE 1)
        ELSE IF Len(x) <= 8 THEN Cmp(SubSeq(x, 1, Len(x) - 1), SubSeq(y, 1, Len(y) - 1))
        ELSE Halves(Len(x) \div 2)

\* x + y + c for a carry c of 0 or 1
AddN(x, y, c) ==
    Trim(Columns([i \in 1..(IF Len(x) > Len(y) THEN Len(x) ELSE Len(y)) |->
                     (IF i <= Len(x) THEN x[i] ELSE 0) + (IF i <= Len(y) THEN y[i] ELSE 0)],
                 1, c))

\* x - y for x >= y: x plus the complement of y plus 1, less the carry at the end
SubN(x, y) ==
    Trim(SubSeq(Columns([i \in 1..Len(x) |->
                            x[i] + (Base - 1 - (IF i <= Len(y) THEN y[i] ELSE 0))],
                        1, 1),
                1, Len(x)))

\* x * y, by halves of y
RECURSIVE MulN(_, _)
MulN(x, y) ==
    LET Halves(k) ==
            AddN(MulN(x, SubSeq(y, 1, k)),
                 [i \in 1..k |-> 0] \o MulN(x, SubSeq(y, k + 1, Len(y))), 0)
    IN  IF x = <<>> \/ y = <<>> THEN <<>>
        ELSE IF Len(y) = 1 THEN MulAdd(x, y[1], 0)
        ELSE Trim(Halves(Len(y) \div 2))

\* x * 2^k
ShiftLeft(x, k) ==
    IF x = <<>> THEN <<>>
    ELSE [i \in 1..(k \div 15) |-> 0] \o MulAdd(x, 2 ^ (k % 15), 0)

\* x \div 2^k
ShiftRight(x, k) ==
    LET Bits(y, j) ==
            Trim([i \in 1..Len(y) |->
                     (y[i] \div 2 ^ j)
                     + (IF i < Len(y) THEN (y[i + 1] % 2 ^ j) * 2 ^ (15 - j) ELSE 0)])
    IN  IF k \div 15 >= Len(x) THEN <<>>
        ELSE Bits(SubSeq(x, k \div 15 + 1, Len(x)), k % 15)

\* the number of bits of x
BitLen(x) ==
    IF x = <<>> THEN 0
    ELSE 15 * (Len(x) - 1) + CHOOSE b \in 1..15 : 2 ^ (b - 1) <= x[Len(x)] /\ x[Len(x)] < 2 ^ b

\* the number of zero bits at the low end of x > 0
RECURSIVE TrailingZeros(_)
TrailingZeros(x) ==
    IF x[1] = 0 THEN 15 + TrailingZeros(Tail(x))
    ELSE CHOOSE j \in 0..14 : x[1] % 2 ^ j = 0 /\ x[1] % 2 ^ (j + 1) # 0

\* the largest natural below the base that is k or k with bits from 2^i down
\* added and whose product with d is at most n
RECURSIVE Digit(_, _, _, _)
Digit(n, d, i, k) ==
    IF i < 0 THEN k
    ELSE IF Cmp(MulAdd(d, k + 2 ^ i, 0), n) <= 0 THEN Digit(n, d, i - 1, k + 2 ^ i)
    ELSE Digit(n, d, i - 1, k)

\* <<n \div d, n % d>> for n < d * Base^j, the limbs of the quotient found so far
\* in q: long division, a limb of the quotient at a time
RECURSIVE Divide(_, _, _, _)
Divide(n, d, j, q) ==
    LET Limb(t, k) ==
            Divide(IF k = 0 THEN n ELSE SubN(n, MulAdd(t, k, 0)), d, j - 1, <<k>> \o q)
        Shifted(t) == Limb(t, IF Cmp(n, t) < 0 THEN 0 ELSE Digit(n, t, 14, 0))
    IN  IF j = 0 THEN <<Trim(q), n>>
        ELSE Shifted([i \in 1..(j - 1) |-> 0] \o d)

Zero == <<0, <<>>, 0>>

Inf == <<1, <<>>, 1024>>

NaN == <<0, <<>>, 1024>>

IsFinite(x) == x[3] # 1024 \/ x[2] # <<>>

\* the double of sign s with the value m * 2^e of at most 53 bits: inf from 2^1024 on
Double(s, m, e) ==
    IF m = <<>> THEN Zero
    ELSE IF BitLen(m) + e > 1024 THEN <<s, <<>>, 1024>>
    ELSE <<s, ShiftRight(m, TrailingZeros(m)), e + TrailingZeros(m)>>

\* the exponent of the last bit that a double keeps of p / q * 2^x: 53 bits are
\* kept, none of them below 2^-1074
LastBit(p, q, x) ==
    LET k == BitLen(p) - BitLen(q)
        \* 2^log <= p / q < 2^(log + 1)
        log == IF Cmp(IF k < 0 THEN ShiftLeft(p, -k) ELSE p,
                      IF k > 0 THEN ShiftLeft(q, k) ELSE q) >= 0
               THEN k ELSE k - 1
    IN  (IF log - 52 + x < -1074 THEN -1074 - x ELSE log - 52) + x

\* the double of sign s nearest to (qr[1] + qr[2] / d) * 2^e, the quotient qr[1]
\* of at most 53 bits and the remainder qr[2] < d: a tie goes to the even mantissa
Nearest(s, qr, d, e) ==
    Double(s,
           IF Cmp(ShiftLeft(qr[2], 1), d) > 0
              \/ (Cmp(ShiftLeft(qr[2], 1), d) = 0 /\ qr[1] # <<>> /\ qr[1][1] % 2 = 1)
           THEN AddN(qr[1], <<>>, 1) ELSE qr[1],
           e)

\* quotient and remainder of n by a divisor k of one limb, from the top limb of n
\* down: r is the remainder so far and q the limbs of the quotient below it
RECURSIVE ShortDivide(_, _, _, _)
ShortDivide(n, k, r, q) ==
    IF n = <<>> THEN <<Trim(q), Limbs(r)>>
    ELSE ShortDivide(SubSeq(n, 1, Len(n) - 1), k, (r * Base + n[Len(n)]) % k,
                     <<(r * Base + n[Len(n)]) \div k>> \o q)

\* quotient and remainder of n by d > 0, the quotient below 2^60
QuotRem(n, d) ==
    IF Len(d) = 1 /\ Len(n) <= 8 THEN ShortDivide(n, d[1], 0, <<>>)
    ELSE Divide(n, d, 4, <<>>)

\* the double nearest to s * p / q * 2^x for naturals p, q > 0, its last bit of
\* exponent last
Kept(s, p, q, last, x) ==
    Nearest(s,
            QuotRem(IF last < x THEN ShiftLeft(p, x - last) ELSE p,
                    IF last > x THEN ShiftLeft(q, last - x) ELSE q),
            IF last > x THEN ShiftLeft(q, last - x) ELSE q,
            last)

\* the double nearest to s * p / q * 2^x for naturals p, q > 0; a value of 53
\* bits, none below 2^-1074, is kept as it is
Round(s, p, q, x) ==
    IF q = <<1>> /\ BitLen(p) <= 53 /\ x + TrailingZeros(p) >= -1074 THEN Double(s, p, x)
    ELSE Kept(s, p, q, LastBit(p, q, x), x)

\* float(n): the int n as a float, which holds every int of 32 bits
Num(n) == Double(Sign(n), Limbs(Abs(n)), 0)

\* a / b of ints, b # 0
Frac(a, b) ==
    IF a = 0 THEN Zero ELSE Round(Sign(a) * Sign(b), Limbs(Abs(a)), Limbs(Abs(b)), 0)

\* x * y of floats: inf * 0 is nan
Mul(x, y) ==
    IF ~IsFinite(x) \/ ~IsFinite(y) THEN <<x[1] * y[1], <<>>, 1024>>
    ELSE IF x = Zero \/ y = Zero THEN Zero
    ELSE Round(x[1] * y[1], MulN(x[2], y[2]), <<1>>, x[3] + y[3])

\* x / y of floats, y finite and not 0
Div(x, y) ==
    IF ~IsFinite(x) THEN <<x[1] * y[1], <<>>, 1024>>
    ELSE IF x = Zero THEN Zero
    ELSE Round(x[1] * y[1], x[2], y[2], x[3] - y[3])

\* x - y of floats: inf - inf is nan
Sub(x, y) ==
    LET e == IF x[3] < y[3] THEN x[3] ELSE y[3]
        a == ShiftLeft(x[2], x[3] - e)
        b == ShiftLeft(y[2], y[3] - e)
        \* how the magnitude of x compares with that of y
        c == Cmp(a, b)
    IN  IF IsFinite(x) /\ IsFinite(y)
        THEN IF x[1] = y[1] /\ c = 0 THEN Zero
             ELSE Round(IF x[1] = y[1] THEN c * x[1] ELSE IF x[1] # 0 THEN x[1] ELSE -y[1],
                        IF x[1] # y[1] THEN AddN(a, b, 0)
                        ELSE SubN(IF c > 0 THEN a ELSE b, IF c > 0 THEN b ELSE a),
                        <<1>>, e)
        ELSE IF x = NaN \/ y = NaN THEN NaN
        ELSE IF IsFinite(y) THEN x
        ELSE IF IsFinite(x) THEN <<-y[1], <<>>, 1024>>
        ELSE IF x = y THEN NaN ELSE x

\* the value of a run of decimal digits that fits an int
RECURSIVE DecimalValue(_)
DecimalValue(s) ==
    IF s = <<>> THEN 0
    ELSE 10 * DecimalValue(SubSeq(s, 1, Len(s) - 1)) + DigitValue(s[Len(s)])

\* the natural 10^k
RECURSIVE Pow10(_)
Pow10(k) ==
    LET Square(h) == MulN(h, h)
    IN  IF k = 0 THEN <<1>>
        ELSE IF k % 2 = 1 THEN MulAdd(Pow10(k - 1), 10, 0)
        ELSE Square(Pow10(k \div 2))

\* the natural of a run of decimal digits
RECURSIVE DecimalNat(_)
DecimalNat(s) ==
    LET Halves(k) ==
            AddN(MulN(DecimalNat(SubSeq(s, 1, Len(s) - k)), Pow10(k)),
                 DecimalNat(SubSeq(s, Len(s) - k + 1, Len(s))), 0)
    IN  IF Len(s) <= 9 THEN Limbs(DecimalValue(s)) ELSE Halves(Len(s) \div 2)

\* s with its leading zeros removed
RECURSIVE StripZeros(_)
StripZeros(s) == IF s # <<>> /\ s[1] = "0" THEN StripZeros(Tail(s)) ELSE s

\* every decimal digit of every script
DecimalDigits == UNION {{UnicodeDigits[r][k] : k \in 1..10} : r \in 1..Len(UnicodeDigits)}

\* float() and int() of a str first turn every decimal digit into its ASCII digit
\* and every whitespace above the ASCII range into a space
ToAscii(s) ==
    LET Ascii(c) ==
            IF c \in DecimalDigits
            THEN AsciiDigits[CHOOSE k \in 1..10 :
                                \E r \in 1..Len(UnicodeDigits) : UnicodeDigits[r][k] = c]
            ELSE IF c \in Whitespace \ (AsciiSpace \cup {"U+001C", "U+001D", "U+001E", "U+001F"})
            THEN " " ELSE c
    IN  [i \in 1..Len(s) |-> Ascii(s[i])]

\* the text float() and int() parse: the ends stripped of ASCII whitespace
NumberText(s) ==
    LET Stripped(t, keep) ==
            IF keep = {} THEN <<>>
            ELSE SubSeq(t, CHOOSE i \in keep : \A j \in keep : i <= j,
                           CHOOSE i \in keep : \A j \in keep : j <= i)
        Strip(t) == Stripped(t, {i \in 1..Len(t) : t[i] \notin AsciiSpace})
    IN  Strip(ToAscii(s))

\* an underscore of a numeric literal stands between two digits
UnderscoresOk(t) ==
    \A i \in 1..Len(t) :
        t[i] = "_" => /\ i > 1 /\ i < Len(t)
                      /\ t[i - 1] \in {AsciiDigits[k] : k \in 1..10}
                      /\ t[i + 1] \in {AsciiDigits[k] : k \in 1..10}

\* the number of digits of t from index i on
RECURSIVE DigitRun(_, _)
DigitRun(t, i) ==
    IF i <= Len(t) /\ t[i] \in {AsciiDigits[k] : k \in 1..10} THEN 1 + DigitRun(t, i + 1) ELSE 0

\* t without its sign
Unsigned(t) == IF t # <<>> /\ t[1] \in {"+", "-"} THEN Tail(t) ELSE t

\* t without its sign and without the underscores between its digits
DigitsOf(t) == Unsigned(SelectSeq(t, LAMBDA c : c # "_"))

SignOf(t) == IF t # <<>> /\ t[1] = "-" THEN -1 ELSE 1

\* the parts of a decimal literal digits[.digits][e[sign]digits], read from the
\* left: a and b are the lengths of the digit runs before and after the dot, p is
\* where the mantissa ends and q where the digits of the exponent begin
FloatParts(t) ==
    LET Exponent(a, has_dot, b, p, has_exp, q) ==
            [int_digits |-> SubSeq(t, 1, a),
             frac_digits |-> IF has_dot THEN SubSeq(t, a + 2, a + 1 + b) ELSE <<>>,
             has_exp |-> has_exp,
             exp_negative |-> q = p + 2 /\ t[p + 2] = "-",
             exp_digits |-> IF has_exp THEN SubSeq(t, q + 1, q + DigitRun(t, q + 1)) ELSE <<>>,
             end |-> IF has_exp THEN q + DigitRun(t, q + 1) ELSE p]
        Mantissa(a, has_dot, b, p, has_exp) ==
            Exponent(a, has_dot, b, p, has_exp,
                     IF has_exp /\ p + 1 < Len(t) /\ t[p + 2] \in {"+", "-"}
                     THEN p + 2 ELSE p + 1)
        Fraction(a, has_dot, b, p) ==
            Mantissa(a, has_dot, b, p, p < Len(t) /\ t[p + 1] \in {"e", "E"})
        Dot(a, has_dot, b) == Fraction(a, has_dot, b, IF has_dot THEN a + 1 + b ELSE a)
        Integer(a, has_dot) == Dot(a, has_dot, IF has_dot THEN DigitRun(t, a + 2) ELSE 0)
        Start(a) == Integer(a, a < Len(t) /\ t[a + 1] = ".")
    IN  Start(DigitRun(t, 1))

\* the word of t when t, less its sign and in lower case, is inf, infinity or
\* nan; <<>> otherwise
InfNanWord(t) ==
    LET u == Unsigned(t)
        word == [i \in 1..Len(u) |->
                    CASE u[i] = "I" -> "i" [] u[i] = "N" -> "n" [] u[i] = "F" -> "f"
                      [] u[i] = "A" -> "a" [] u[i] = "T" -> "t" [] u[i] = "Y" -> "y"
                      [] OTHER -> u[i]]
    IN  IF word \in {<<"i", "n", "f">>, <<"i", "n", "f", "i", "n", "i", "t", "y">>,
                     <<"n", "a", "n">>}
        THEN word ELSE <<>>

IsDecimalLiteral(t) ==
    /\ UnderscoresOk(t)
    /\ LET Whole(u, parts) ==
               /\ Len(parts.int_digits) + Len(parts.frac_digits) > 0
               /\ parts.has_exp => parts.exp_digits # <<>>
               /\ parts.end = Len(u)
       IN  Whole(DigitsOf(t), FloatParts(DigitsOf(t)))

\* float(s) raises ValueError
float_raises(s) ==
    LET Rejected(t) == InfNanWord(t) = <<>> /\ ~IsDecimalLiteral(t)
    IN  Rejected(NumberText(s))

\* the value of the parts of a decimal literal: the double nearest to the digits d
\* of its mantissa without leading zeros times 10^e.  A value of 10^309 or more is
\* inf, one below 10^-324 is 0, as is every value with an exponent of more than
\* six digits.
PartsValue(parts) ==
    LET d == StripZeros(parts.int_digits \o parts.frac_digits)
        xs == StripZeros(parts.exp_digits)
        x == IF Len(xs) > 6 THEN 1000000 ELSE DecimalValue(xs)
        e == (IF parts.exp_negative THEN -x ELSE x) - Len(parts.frac_digits)
    IN  IF d = <<>> \/ Len(d) + e < -323 THEN Zero
        ELSE IF Len(d) + e > 309 THEN Inf
        ELSE Round(1,
                   IF e > 0 THEN MulN(DecimalNat(d), Pow10(e)) ELSE DecimalNat(d),
                   IF e < 0 THEN Pow10(-e) ELSE <<1>>,
                   0)

\* x with the sign of a literal
Signed(sign, x) == <<sign * x[1], x[2], x[3]>>

\* the value of a decimal literal
DecimalLiteralValue(t) == Signed(SignOf(t), PartsValue(FloatParts(DigitsOf(t))))

\* float(s) of a str that float() accepts
float(s) ==
    LET Value(t) ==
            IF InfNanWord(t) = <<>> THEN DecimalLiteralValue(t)
            ELSE IF InfNanWord(t) = <<"n", "a", "n">> THEN NaN
            ELSE Signed(SignOf(t), Inf)
    IN  Value(NumberText(s))

\* int(s) of a str raises ValueError
int_raises(s) ==
    LET Rejected(t, u) == ~(UnderscoresOk(t) /\ u # <<>> /\ DigitRun(u, 1) = Len(u))
        Text(t) == Rejected(t, DigitsOf(t))
    IN  Text(NumberText(s))

\* int(s) of a str that int() accepts
int(s) ==
    LET Value(t) == SignOf(t) * DecimalValue(DigitsOf(t))
    IN  Value(NumberText(s))

(***************************************************************************)
(* Exceptions.                                                             *)
(***************************************************************************)
ParsingError(line, text, arg) ==
    [type |-> "ParsingError", line |-> line, message |-> [text |-> text, arg |-> arg]]

ValueError == [type |-> "ValueError"]

IndexError == [type |-> "IndexError"]

OverflowError == [type |-> "OverflowError"]

ZeroDivisionError == [type |-> "ZeroDivisionError"]

Raised(x) ==
    x.type \in {"ParsingError", "ValueError", "IndexError", "OverflowError", "ZeroDivisionError"}

\* int(x) of a float: cut towards zero; OverflowError on inf, ValueError on nan
int_of_float(x) ==
    IF x = NaN THEN ValueError
    ELSE IF ~IsFinite(x) THEN OverflowError
    ELSE [type |-> "ok",
          value |-> x[1] * IntOf(IF x[3] >= 0 THEN ShiftLeft(x[2], x[3])
                                 ELSE ShiftRight(x[2], -x[3]))]

(***************************************************************************)
(* model.py / parser.py: values.                                           *)
(***************************************************************************)
IMG_KEYWORD == <<"@", "i", "m", "g">>

CODE_KEYWORD == <<"@", "c", "o", "d", "e">>

STATEMENT == <<" ", "s", "t", "a", "t", "e", "m", "e", "n", "t">>

\* SlideOptions(): every attribute None.  The record holds the attributes of both
\* forms of the class: model.py declares background, foreground, cover, meme and
\* scale, which formatter.py reads; parser.py and renderer.py construct and read
\* background, foreground, cover, style and scale (SlideStyle.DEFAULT /
\* SlideStyle.MEME) and parser.py writes meme besides.  An attribute that a
\* constructor call does not pass is None.  The model.py of src declares neither
\* style nor SlideStyle, which parser.py, renderer.py and test_parser.py import:
\* the class they are written against is not in src, and style is taken from
\* their use of it (parser.py lines 9-15, 221-228, 237-243; renderer.py line 67).
SlideOptions ==
    [background |-> None, foreground |-> None, cover |-> None, style |-> None,
     meme |-> None, scale |-> None]

DEFAULT_SLIDE_OPTIONS ==
    [background |-> Some(<<"b", "l", "a", "c", "k">>),
     foreground |-> Some(<<"w", "h", "i", "t", "e">>),
     cover |-> Some(FALSE),
     style |-> Some("DEFAULT"),
     meme |-> None,
     scale |-> Some(Num(1))]

RawLine(value, index) == [value |-> value, index |-> index]

TextLine(text, index) == [type |-> "TextLine", text |-> text, index |-> index]

IncludeImageLine(path, index) == [type |-> "IncludeImageLine", path |-> path, index |-> index]

IncludeCodeLine(path, index) == [type |-> "IncludeCodeLine", path |-> path, index |-> index]

EmptyLine(index) == [type |-> "EmptyLine", index |-> index]

OptionLine(key, args, index) ==
    [type |-> "OptionLine", key |-> key, args |-> args, index |-> index]

\* the class attribute `name` of a parsed line
name(line) ==
    CASE line.type = "TextLine" -> <<"T", "e", "x", "t", " ", "l", "i", "n", "e">>
      [] line.type = "IncludeImageLine" -> IMG_KEYWORD \o STATEMENT
      [] line.type = "IncludeCodeLine" -> CODE_KEYWORD \o STATEMENT
      [] line.type = "EmptyLine" -> <<"e", "m", "p", "t", "y", " ", "l", "i", "n", "e">>

TextSlide(text, options) == [type |-> "TextSlide", text |-> text, options |-> options]

ImageSlide(image_path, text, options) ==
    [type |-> "ImageSlide", image_path |-> image_path, text |-> text, options |-> options]

CodeSlide(code_path, options) ==
    [type |-> "CodeSlide", code_path |-> code_path, options |-> options]

\* Presentation(slides=slides): options keeps its default, SlideOptions()
Presentation(slides_) == [type |-> "Presentation", slides |-> slides_, options |-> SlideOptions]

(***************************************************************************)
(* parser.py: line classification.                                         *)
(***************************************************************************)
_split_into_lines(source_) ==
    LET ls == splitlines(source_)
    IN  [i \in 1..Len(ls) |-> RawLine(ls[i], i - 1)]

\* comments kept as empty lines instead of being dropped
_filter_comments_blank(lines_) ==
    [i \in 1..Len(lines_) |->
        IF startswith(lines_[i].value, "#") THEN RawLine(<<>>, lines_[i].index) ELSE lines_[i]]

_filter_comments(lines_) == SelectSeq(lines_, LAMBDA line : ~startswith(line.value, "#"))

_parse_option(line) ==
    LET tokens == split(line.value)
        keyword == tokens[1]
        args == Tail(tokens)
    IN  IF keyword \in {<<":", "f", "g">>, <<":", "b", "g">>,
                        <<":", "s", "c", "a", "l", "e">>, <<":", "s", "t", "y", "l", "e">>}
        THEN IF Len(args) # 1
             THEN ParsingError(line.index, "Expected one argument for {} statement", keyword)
             ELSE OptionLine(DropFirst(keyword), args, line.index)
        ELSE IF keyword \in {<<":", "c", "o", "v", "e", "r">>,
                             <<":", "n", "o", "c", "o", "v", "e", "r">>,
                             <<":", "n", "o", "s", "t", "y", "l", "e">>}
        THEN IF Len(args) # 0
             THEN ParsingError(line.index, "Expected no argument for {} statement", keyword)
             ELSE OptionLine(DropFirst(keyword), args, line.index)
        ELSE ParsingError(line.index, "Unknown keyword {}", keyword)

_parse_line(line) ==
    IF startswith(line.value, "@")
    THEN LET tokens == split(line.value)
             keyword == tokens[1]
             args == Tail(tokens)
         IN  IF keyword = IMG_KEYWORD
             THEN IF Len(args) = 0
                  THEN ParsingError(line.index, "No path given in {} statement", IMG_KEYWORD)
                  ELSE IncludeImageLine(args[1], line.index)
             ELSE IF keyword = CODE_KEYWORD
             THEN IF Len(args) = 0
                  THEN ParsingError(line.index, "No path given in {} statement", CODE_KEYWORD)
                  ELSE IncludeCodeLine(args[1], line.index)
             ELSE ParsingError(line.index, "Unknown keyword {}", keyword)
    ELSE IF startswith(line.value, ":") THEN _parse_option(line)
    ELSE IF startswith(line.value, "\\") THEN TextLine(DropFirst(line.value), line.index)
    ELSE IF strip(line.value) = <<>> THEN EmptyLine(line.index)
    ELSE TextLine(line.value, line.index)

\* [_parse_line(line) for line in lines]: the list, or the first exception raised
_parse_lines(lines_) ==
    LET ps == [i \in 1..Len(lines_) |-> _parse_line(lines_[i])]
    IN  IF \E i \in 1..Len(ps) : Raised(ps[i])
        THEN ps[CHOOSE i \in 1..Len(ps) : Raised(ps[i]) /\ \A j \in 1..(i - 1) : ~Raised(ps[j])]
        ELSE [type |-> "list", value |-> ps]

(***************************************************************************)
(* parser.py: chunks, options, slides.                                     *)
(***************************************************************************)
LinesOfKind(chunk, type) == SelectSeq(chunk, LAMBDA line : line.type = type)

\* finish_chunk without the emptiness test: every separator closes a chunk
finish_chunk_always(all_chunks, current_chunk) == Append(all_chunks, current_chunk)

\* finish_chunk(): append the current chunk unless it is empty
finish_chunk(all_chunks, current_chunk) ==
    IF Len(current_chunk) > 0 THEN Append(all_chunks, current_chunk) ELSE all_chunks

RECURSIVE _split_into_chunks_loop(_, _, _)
_split_into_chunks_loop(lines_, current_chunk, all_chunks) ==
    IF lines_ = <<>> THEN finish_chunk(all_chunks, current_chunk)
    ELSE IF Head(lines_).type = "EmptyLine"
         THEN _split_into_chunks_loop(Tail(lines_), <<>>, finish_chunk(all_chunks, current_chunk))
         ELSE _split_into_chunks_loop(Tail(lines_), Append(current_chunk, Head(lines_)), all_chunks)

_split_into_chunks(lines_) == _split_into_chunks_loop(lines_, <<>>, <<>>)

_is_option_only_chunk(chunk) == \A i \in 1..Len(chunk) : chunk[i].type = "OptionLine"

_is_image_chunk(chunk) == \E i \in 1..Len(chunk) : chunk[i].type = "IncludeImageLine"

_is_code_chunk(chunk) == \E i \in 1..Len(chunk) : chunk[i].type = "IncludeCodeLine"

_strip_escape_char_for_line(line) == IF startswith(line, "\\") THEN DropFirst(line) ELSE line

\* the lines joined with a space instead of a newline
_strip_escape_char_and_join_space(chunk) ==
    join(<<" ">>, [i \in 1..Len(chunk) |-> _strip_escape_char_for_line(chunk[i].text)])

_strip_escape_char_and_join(chunk) ==
    join(<<"\n">>, [i \in 1..Len(chunk) |-> _strip_escape_char_for_line(chunk[i].text)])

\* the loop of _parse_options: (filtered_lines, options), or the exception raised
RECURSIVE _parse_options_loop(_, _, _)
_parse_options_loop(chunk, options, filtered_lines) ==
    IF chunk = <<>>
    THEN [type |-> "tuple", lines |-> filtered_lines, options |-> options]
    ELSE LET line == Head(chunk)
             rest == Tail(chunk)
         IN  IF line.type # "OptionLine"
             THEN _parse_options_loop(rest, options, Append(filtered_lines, line))
             ELSE IF line.key = <<"f", "g">>
             THEN _parse_options_loop(rest, [options EXCEPT !.foreground = Some(line.args[1])],
                                      filtered_lines)
             ELSE IF line.key = <<"b", "g">>
             THEN _parse_options_loop(rest, [options EXCEPT !.background = Some(line.args[1])],
                                      filtered_lines)
             ELSE IF line.key = <<"s", "c", "a", "l", "e">>
             THEN IF float_raises(line.args[1])
                  THEN ValueError
                  ELSE _parse_options_loop(rest,
                                           [options EXCEPT !.scale = Some(float(line.args[1]))],
                                           filtered_lines)
             ELSE IF line.key = <<"c", "o", "v", "e", "r">>
             THEN _parse_options_loop(rest, [options EXCEPT !.cover = Some(TRUE)], filtered_lines)
             ELSE IF line.key = <<"n", "o", "c", "o", "v", "e", "r">>
             THEN _parse_options_loop(rest, [options EXCEPT !.cover = Some(FALSE)], filtered_lines)
             ELSE IF line.key = <<"s", "t", "y", "l", "e">>
             THEN IF line.args[1] = <<"m", "e", "m", "e">>
                  THEN _parse_options_loop(rest,
                                           [options EXCEPT !.style = Some("MEME"),
                                                           !.meme = Some(TRUE)],
                                           filtered_lines)
                  ELSE ParsingError(line.index, "Unknown style {}", line.args[1])
             ELSE IF line.key = <<"n", "o", "s", "t", "y", "l", "e">>
             THEN _parse_options_loop(rest, [options EXCEPT !.style = Some("DEFAULT")],
                                      filtered_lines)
             ELSE ValueError

_parse_options(chunk) == _parse_options_loop(chunk, SlideOptions, <<>>)

\* _with_fallback written with `or`: a falsy local value (cover False) falls through
_with_fallback_falsy(options, fallback) ==
    [background |-> IF options.background = None THEN fallback.background ELSE options.background,
     foreground |-> IF options.foreground = None THEN fallback.foreground ELSE options.foreground,
     cover |-> IF options.cover \in {None, Some(FALSE)} THEN fallback.cover ELSE options.cover,
     style |-> IF options.style = None THEN fallback.style ELSE options.style,
     meme |-> None,
     scale |-> IF options.scale = None THEN fallback.scale ELSE options.scale]

_with_fallback(options, fallback) ==
    [background |-> IF options.background = None THEN fallback.background ELSE options.background,
     foreground |-> IF options.foreground = None THEN fallback.foreground ELSE options.foreground,
     cover |-> IF options.cover = None THEN fallback.cover ELSE options.cover,
     style |-> IF options.style = None THEN fallback.style ELSE options.style,
     meme |-> None,
     scale |-> IF options.scale = None THEN fallback.scale ELSE options.scale]

\* the loop of _parse_image_chunk: the slide (options not yet assigned), or the
\* exception raised
RECURSIVE _parse_image_chunk_loop(_, _, _, _)
_parse_image_chunk_loop(chunk, is_meme, image_path, text) ==
    IF chunk = <<>>
    THEN LET joined == _strip_escape_char_and_join(text)
         IN  ImageSlide(image_path[1], IF joined = <<>> THEN None ELSE Some(joined), SlideOptions)
    ELSE LET line == Head(chunk)
         IN  IF line.type = "IncludeImageLine"
             THEN IF image_path # None
                  THEN ParsingError(line.index, "Only one {} statement per slide is allowed",
                                    IMG_KEYWORD)
                  ELSE _parse_image_chunk_loop(Tail(chunk), is_meme, Some(line.path), text)
             ELSE IF line.type = "TextLine"
             THEN IF is_meme /\ Len(text) >= 2
                  THEN ParsingError(line.index,
                           "Image slide with style meme cannot have more than 2 lines of text",
                           <<>>)
                  ELSE _parse_image_chunk_loop(Tail(chunk), is_meme, image_path,
                                               Append(text, line))
             ELSE ParsingError(line.index, "{} not supported in image slide", name(line))

\* _parse_image_chunk without the test for a second @img: the last path wins
RECURSIVE _parse_image_chunk_last_wins_loop(_, _, _, _)
_parse_image_chunk_last_wins_loop(chunk, is_meme, image_path, text) ==
    IF chunk = <<>>
    THEN LET joined == _strip_escape_char_and_join(text)
         IN  ImageSlide(image_path[1], IF joined = <<>> THEN None ELSE Some(joined), SlideOptions)
    ELSE LET line == Head(chunk)
         IN  IF line.type = "IncludeImageLine"
             THEN _parse_image_chunk_last_wins_loop(Tail(chunk), is_meme, Some(line.path), text)
             ELSE IF line.type = "TextLine"
             THEN IF is_meme /\ Len(text) >= 2
                  THEN ParsingError(line.index,
                           "Image slide with style meme cannot have more than 2 lines of text",
                           <<>>)
                  ELSE _parse_image_chunk_last_wins_loop(Tail(chunk), is_meme, image_path,
                                                         Append(text, line))
             ELSE ParsingError(line.index, "{} not supported in image slide", name(line))

_parse_image_chunk_last_wins(chunk, is_meme) ==
    _parse_image_chunk_last_wins_loop(chunk, is_meme, None, <<>>)

_parse_image_chunk(chunk, is_meme) == _parse_image_chunk_loop(chunk, is_meme, None, <<>>)

RECURSIVE _parse_code_chunk_loop(_, _)
_parse_code_chunk_loop(chunk, code_path) ==
    IF chunk = <<>> THEN CodeSlide(code_path[1], SlideOptions)
    ELSE LET line == Head(chunk)
         IN  IF line.type = "IncludeCodeLine"
             THEN IF code_path # None
                  THEN ParsingError(line.index, "Only one {} statement per slide is allowed",
                                    CODE_KEYWORD)
                  ELSE _parse_code_chunk_loop(Tail(chunk), Some(line.path))
             ELSE ParsingError(line.index, "{} not supported in code slide", name(line))

\* _parse_code_chunk that skips the lines that are no @code statement
_parse_code_chunk_lenient(chunk) ==
    _parse_code_chunk_loop(LinesOfKind(chunk, "IncludeCodeLine"), None)

_parse_code_chunk(chunk) == _parse_code_chunk_loop(chunk, None)

\* is_meme as _parse_chunk_to_slide passes it: the style of the chunk's own options
_is_meme(options) == options.style = Some("MEME")

_parse_chunk_to_slide(chunk_, presentation_default_slide_options_) ==
    LET WithOptions(slide, options) ==
            IF Raised(slide) THEN slide
            ELSE [slide EXCEPT
                      !.options = _with_fallback(options, presentation_default_slide_options_)]
        Slide(chunk, options) ==
            WithOptions(IF _is_image_chunk(chunk)
                        THEN _parse_image_chunk(chunk, _is_meme(options))
                        ELSE IF _is_code_chunk(chunk)
                        THEN _parse_code_chunk(chunk)
                        ELSE TextSlide(_strip_escape_char_and_join(chunk), SlideOptions),
                        options)
        Parsed(parsed) == IF Raised(parsed) THEN parsed ELSE Slide(parsed.lines, parsed.options)
    IN  Parsed(_parse_options(chunk_))

\* parse, lines 66-70: the chunks left for the slides and the resolved
\* presentation-level options, or the exception raised (chunks[0] of an empty list)
_presentation_options(chunks_) ==
    IF chunks_ = <<>> THEN IndexError
    ELSE IF _is_option_only_chunk(chunks_[1])
    THEN LET Parsed(parsed) ==
                 IF Raised(parsed) THEN parsed
                 ELSE [type |-> "tuple", chunks |-> Tail(chunks_),
                       options |-> _with_fallback(parsed.options, DEFAULT_SLIDE_OPTIONS)]
         IN  Parsed(_parse_options(chunks_[1]))
    ELSE [type |-> "tuple", chunks |-> chunks_,
          options |-> _with_fallback(SlideOptions, DEFAULT_SLIDE_OPTIONS)]

\* [_parse_chunk_to_slide(chunk, ...) for chunk in chunks]: the list, or the first
\* exception raised
_parse_slides(chunks_, presentation_default_slide_options_) ==
    LET List(ss) ==
            IF \E i \in 1..Len(ss) : Raised(ss[i])
            THEN ss[CHOOSE i \in 1..Len(ss) :
                        Raised(ss[i]) /\ \A j \in 1..(i - 1) : ~Raised(ss[j])]
            ELSE [type |-> "list", value |-> ss]
    IN  List([i \in 1..Len(chunks_) |->
                  _parse_chunk_to_slide(chunks_[i], presentation_default_slide_options_)])

\* parse(source) as a function of the text: the Presentation, or the exception raised
parse(source_) ==
    LET Slides(built) == IF Raised(built) THEN built ELSE Presentation(built.value)
        Chunks(first) ==
            IF Raised(first) THEN first ELSE Slides(_parse_slides(first.chunks, first.options))
        Lines(parsed) ==
            IF Raised(parsed) THEN parsed
            ELSE Chunks(_presentation_options(_split_into_chunks(parsed.value)))
    IN  Lines(_parse_lines(_filter_comments(_split_into_lines(source_))))

(***************************************************************************)
(* renderer.py / formatter.py: values.  An argument of a command line is a *)
(* tagged tuple: a literal, or the values an f-string formats in the order *)
(* it formats them.  A number of a geometry is the float the renderer      *)
(* computes, so that h / 6 is the double the command line prints.          *)
(***************************************************************************)
TEXT_FONTS == <<<<"D", "e", "j", "a", "V", "u", "-", "S", "a", "n", "s">>, <<"R", "o", "b", "o", "t", "o">>, <<"U", "b", "u", "n", "t", "u">>>>

CODE_FONTS == <<<<"S", "o", "u", "r", "c", "e", "-", "C", "o", "d", "e", "-", "P", "r", "o">>, <<"U", "b", "u", "n", "t", "u", "-", "M", "o", "n", "o">>, <<"D", "e", "J", "a", "V", "u", "-", "S", "a", "n", "s", "-", "M", "o", "n", "o">>>>

MEME_FONTS == <<<<"I", "m", "p", "a", "c", "t">>>>

MEME == "MEME"

Configuration(resolution) == [resolution |-> resolution]

Lit(s) == <<"lit", s>>

Str(s) == <<"str", s>>

\* f'{w}x{h}'
Size(w, h) == <<"size", w, h>>

\* f'{w}x{h}' + ('^' if cover else '')
Resize(w, h, cover) == <<"resize", w, h, cover>>

\* f'xc:{color}'
Xc(color) == <<"xc", color>>

\* f'label:{text}'
Label(text) == <<"label", text>>

\* f'+0-{offset_y}' (sign "-") and f'+0+{offset_y}' (sign "+")
Geometry(sign, offset_y) == <<"geometry", sign, offset_y>>

\* f'{scaled_w}x{scaled_h}+{offset_x}+{offset_y}'
Page(w, h, x, y) == <<"page", w, h, x, y>>

\* f'font_name={font}'
FontName(font) == <<"font_name", font>>

ExecCommand(command) == [type |-> "ExecCommand", command |-> command]

RmDirCommand(path) == [type |-> "RmDirCommand", path |-> path]

MkDirCommand(path) == [type |-> "MkDirCommand", path |-> path]

OUT == <<"o", "u", "t">>

CalledProcessError == [type |-> "CalledProcessError"]

NoException == [type |-> "none"]

\* str(n) of an int
RECURSIVE str_of_int(_)
str_of_int(n) ==
    IF n < 0 THEN <<"-">> \o str_of_int(-n)
    ELSE LET digit == AsciiDigits[(n % 10) + 1]
         IN  IF n < 10 THEN <<digit>> ELSE Append(str_of_int(n \div 10), digit)

\* f'{n:03d}'
RECURSIVE format_03d(_)
format_03d(n) ==
    LET s == str_of_int(n)
    IN  IF Len(s) >= 3 THEN s ELSE [i \in 1..3 |-> IF i <= 3 - Len(s) THEN "0" ELSE s[i - (3 - Len(s))]]

\* font.replace("-", " ")
replace_dash(font) == [i \in 1..Len(font) |-> IF font[i] = "-" THEN " " ELSE font[i]]

(***************************************************************************)
(* renderer.py: ImageMagickSlideRenderer.  self is the record of the       *)
(* object's fields; fonts is the list _get_available_fonts() returns.      *)
(***************************************************************************)
ImageMagickSlideRenderer(configuration_, slide, slide_index_, image_size_) ==
    [configuration |-> configuration_, slide |-> slide, slide_index |-> slide_index_,
     image_size |-> image_size_]

width(self) == self.configuration.resolution[1]

height(self) == self.configuration.resolution[2]

\* slide.text: a str on a TextSlide, Optional[str] on an ImageSlide
text_of(slide) == IF slide.type = "TextSlide" THEN Some(slide.text) ELSE slide.text

\* _slide_filename with the index left out: every slide is numbered 0
_slide_filename_fixed(self) ==
    <<"o", "u", "t", "/", "s", "l", "i", "d", "e", "_">> \o format_03d(0) \o <<".", "p", "n", "g">>

_slide_filename(self) ==
    <<"o", "u", "t", "/", "s", "l", "i", "d", "e", "_">> \o format_03d(self.slide_index) \o <<".", "p", "n", "g">>

_code_filename(self) ==
    <<"t", "m", "p", "/", "s", "l", "i", "d", "e", "_">> \o format_03d(self.slide_index) \o <<"_", "c", "o", "d", "e", ".", "p", "n", "g">>

_get_best_font(choices, fonts) ==
    LET hits == {i \in 1..Len(choices) : \E j \in 1..Len(fonts) : fonts[j] = choices[i]}
    IN  IF hits = {} THEN None
        ELSE Some(choices[CHOOSE i \in hits : \A k \in hits : i <= k])

\* one line of the listing against r'^\s+Font:\s(.*)$': None, or the group
font_of_line(line) ==
    LET rest == lstrip(line)
        key == <<"F", "o", "n", "t", ":">>
    IN  IF /\ Len(rest) < Len(line)
           /\ Len(rest) > Len(key)
           /\ SubSeq(rest, 1, Len(key)) = key
           /\ rest[Len(key) + 1] \in Whitespace
        THEN Some(SubSeq(rest, Len(key) + 2, Len(rest)))
        ELSE None

RECURSIVE fonts_of_lines(_)
fonts_of_lines(ls) ==
    IF ls = <<>> THEN <<>>
    ELSE font_of_line(Head(ls)) \o fonts_of_lines(Tail(ls))

\* lines 217-222: the fonts of the output of `convert -list font`
_get_available_fonts(output) == fonts_of_lines(splitlines(output))

\* lines 177-184: (width, height), or the ZeroDivisionError of an image size 0
_background_size(self) ==
    IF self.image_size = None \/ self.slide.options.cover = Some(TRUE)
    THEN [type |-> "ok", value |-> <<width(self), height(self)>>]
    ELSE LET im_w == self.image_size[1][1]
             im_h == self.image_size[1][2]
         IN  IF im_h = 0 \/ im_w = 0 THEN ZeroDivisionError
             ELSE LET Fit(w, h) ==
                          [type |-> "ok",
                           value |-> <<IF w < width(self) THEN w ELSE width(self),
                                       IF h < height(self) THEN h ELSE height(self)>>]
                  IN  Fit(int_of_float(Frac(height(self) * im_w, im_h)).value,
                          int_of_float(Frac(width(self) * im_h, im_w)).value)

\* lines 186-191
_scaled_size(self) ==
    LET Scaled(size) ==
            IF Raised(size) THEN size
            ELSE [type |-> "ok",
                  value |-> <<Mul(Num(size.value[1]), self.slide.options.scale[1]),
                              Mul(Num(size.value[2]), self.slide.options.scale[1])>>]
    IN  Scaled(_background_size(self))

_render_background(self) ==
    <<Lit("convert"),
      Lit("-size"), Size(Num(width(self)), Num(height(self))),
      Xc(self.slide.options.background[1])>>

\* lines 107-121: the arguments, or the exception of _scaled_size
_render_text(self, fonts) ==
    IF text_of(self.slide) = None THEN [type |-> "ok", value |-> <<>>]
    ELSE LET Arguments(size, font) ==
                 IF Raised(size) THEN size
                 ELSE [type |-> "ok", value |->
                      <<Lit("-size"), Size(size.value[1], size.value[2]),
                        Lit("-background"), Lit("transparent"),
                        Lit("-fill"), Str(self.slide.options.foreground[1])>>
                      \o (IF font # None THEN <<Lit("-font"), Str(font[1])>> ELSE <<>>)
                      \o <<Lit("-gravity"), Lit("Center"),
                           Label(text_of(self.slide)[1]),
                           Lit("-composite")>>]
         IN  Arguments(_scaled_size(self), _get_best_font(TEXT_FONTS, fonts))

\* the caption lines of a meme: lines 126-130
meme_lines(text) ==
    LET ls == splitlines(text) IN IF Len(ls) = 1 THEN Append(ls, <<>>) ELSE ls

\* lines 132-135 after the calls of int(): w, h, scaled_h, strokewidth and offset_y,
\* or the exception of int()
MemeGeometry(w, h, scaled_h, strokewidth, offset_y) ==
    IF Raised(strokewidth) THEN strokewidth
    ELSE IF Raised(offset_y) THEN offset_y
    ELSE [type |-> "ok", w |-> w, h |-> h, scaled_h |-> scaled_h,
          strokewidth |-> strokewidth.value, offset_y |-> offset_y.value]

\* lines 134-135 for a background of w x h and the scaled_h of line 133
MemeBox(w, h, scale, scaled_h) ==
    MemeGeometry(w, h, scaled_h,
                 int_of_float(Div(Mul(Num(IF w <= h THEN w ELSE h), scale), Num(100))),
                 int_of_float(Div(Sub(Num(h), scaled_h), Num(2))))

\* lines 132-135 for the result size of _background_size
MemeSized(size, scale) ==
    IF Raised(size) THEN size
    ELSE MemeBox(size.value[1], size.value[2], scale, Mul(Frac(size.value[2], 6), scale))

\* lines 132-135: w, h, scaled_h, strokewidth and offset_y, or the exception of
\* _background_size or of int()
_meme_geometry(self) == MemeSized(_background_size(self), self.slide.options.scale[1])

\* lines 123-157: the arguments, or the exception raised: the ValueError of line
\* 128, that of the geometry, the IndexError of lines[0] on a text without a line
_render_meme_text(self, fonts) ==
    IF text_of(self.slide) = None THEN [type |-> "ok", value |-> <<>>]
    ELSE IF Len(splitlines(text_of(self.slide)[1])) > 2 THEN ValueError
    ELSE LET Arguments(ls, offset_y, common_options) ==
                 IF ls = <<>> THEN IndexError
                 ELSE [type |-> "ok", value |->
                      common_options
                      \o <<Lit("-gravity"), Lit("Center"),
                           Label(ls[1]),
                           Lit("-geometry"), Geometry("-", offset_y),
                           Lit("-composite")>>
                      \o common_options
                      \o <<Lit("-gravity"), Lit("Center"),
                           Label(ls[2]),
                           Lit("-geometry"), Geometry("+", offset_y),
                           Lit("-composite")>>]
             Options(ls, geometry, font) ==
                 IF Raised(geometry) THEN geometry
                 ELSE Arguments(ls, geometry.offset_y,
                          <<Lit("-size"), Size(Num(geometry.w), geometry.scaled_h),
                            Lit("-background"), Lit("transparent"),
                            Lit("-fill"), Lit("white"),
                            Lit("-stroke"), Lit("black"),
                            Lit("-strokewidth"), Str(str_of_int(geometry.strokewidth))>>
                          \o (IF font # None THEN <<Lit("-font"), Str(font[1])>> ELSE <<>>))
         IN  Options(meme_lines(text_of(self.slide)[1]), _meme_geometry(self),
                     _get_best_font(MEME_FONTS, fonts))

_render_image(self) ==
    <<Lit("-background"), Lit("transparent"),
      Lit("-gravity"), Lit("Center"),
      Str(self.slide.image_path),
      Lit("-resize"), Resize(width(self), height(self), self.slide.options.cover = Some(TRUE)),
      Lit("-extent"), Size(Num(width(self)), Num(height(self))),
      Lit("-composite")>>

\* line 194
identify_command(self) ==
    <<Lit("identify"), Lit("-format"), Lit("%w %h"), Str(self.slide.image_path)>>

\* lines 195-196: the size, or the error of reading the output; parts[0] is
\* read and converted before parts[1] is read
_determine_raw_image_size(output) ==
    LET Size_(parts) ==
            IF Len(parts) < 1 THEN IndexError
            ELSE IF int_raises(parts[1]) THEN ValueError
            ELSE IF Len(parts) < 2 THEN IndexError
            ELSE IF int_raises(parts[2]) THEN ValueError
            ELSE [type |-> "ok", value |-> <<int(parts[1]), int(parts[2])>>]
    IN  Size_(split(output))

\* line 216
list_font_command == <<Lit("convert"), Lit("-list"), Lit("font")>>

\* lines 59-63: the command, or the exception of the text
_render_text_slide(self, fonts) ==
    LET Command(text_cmd) ==
            IF Raised(text_cmd) THEN text_cmd
            ELSE [type |-> "ok", value |->
                     _render_background(self) \o text_cmd.value
                     \o <<Str(_slide_filename(self))>>]
    IN  Command(_render_text(self, fonts))

\* lines 67-73: the command, or the exception of the text
_render_image_slide(self, fonts) ==
    LET Command(text_cmd) ==
            IF Raised(text_cmd) THEN text_cmd
            ELSE [type |-> "ok", value |->
                     _render_background(self) \o _render_image(self) \o text_cmd.value
                     \o <<Str(_slide_filename(self))>>]
    IN  Command(IF self.slide.options.style = Some(MEME)
                THEN _render_meme_text(self, fonts)
                ELSE _render_text(self, fonts))

\* lines 76-88
pygmentize_command(self, fonts) ==
    LET font == _get_best_font(CODE_FONTS, fonts)
        font_line == IF font # None
                     THEN <<Lit("-O"), FontName(replace_dash(font[1]))>> ELSE <<>>
    IN  <<Lit("pygmentize"),
          Lit("-O"), Lit("line_numbers=False"),
          Lit("-O"), Lit("font_size=100"),
          Lit("-O"), Lit("style=vim"),
          Lit("-O"), Lit("image_pad=50")>>
        \o font_line
        \o <<Lit("-o"), Str(_code_filename(self)), Str(self.slide.code_path)>>

\* lines 89-98
_render_code_slide(self) ==
    _render_background(self)
    \o <<Lit("-background"), Lit("transparent"),
         Lit("-gravity"), Lit("Center"),
         Str(_code_filename(self)),
         Lit("-adaptive-resize"), Size(Num(width(self)), Num(height(self))),
         Lit("-extent"), Size(Num(width(self)), Num(height(self))),
         Lit("-composite"),
         Str(_slide_filename(self))>>

(***************************************************************************)
(* formatter.py: Formatter and its SlideFormatter.  self is the record of  *)
(* the SlideFormatter's fields.                                            *)
(***************************************************************************)
\* formatter.py's DEFAULT_SLIDE_OPTIONS
Formatter_DEFAULT_SLIDE_OPTIONS ==
    [background |-> Some(<<"w", "h", "i", "t", "e">>),
     foreground |-> Some(<<"b", "l", "a", "c", "k">>),
     cover |-> Some(FALSE),
     style |-> None,
     meme |-> Some(FALSE),
     scale |-> Some(Num(1))]

\* SlideOptions.with_default: the five attributes model.py declares
with_default(self, other) ==
    [background |-> IF self.background = None THEN other.background ELSE self.background,
     foreground |-> IF self.foreground = None THEN other.foreground ELSE self.foreground,
     cover |-> IF self.cover = None THEN other.cover ELSE self.cover,
     style |-> None,
     meme |-> IF self.meme = None THEN other.meme ELSE self.meme,
     scale |-> IF self.scale = None THEN other.scale ELSE self.scale]

SlideFormatter(configuration_, presentation, slide, index) ==
    [configuration |-> configuration_,
     slide |-> slide,
     options |-> with_default(slide.options,
                              with_default(presentation.options,
                                           Formatter_DEFAULT_SLIDE_OPTIONS)),
     index |-> index]

SlideFormatter_format_resolution(resolution) ==
    Size(Num(resolution[1]), Num(resolution[2]))

\* lines 112-119: scaled_w, scaled_h and the offsets (w - scaled_w) / 2 and
\* (h - scaled_h) / 2
SlideFormatter_scaled_geometry(self) ==
    Page(Mul(Num(self.configuration.resolution[1]), self.options.scale[1]),
         Mul(Num(self.configuration.resolution[2]), self.options.scale[1]),
         Div(Sub(Num(self.configuration.resolution[1]),
                 Mul(Num(self.configuration.resolution[1]), self.options.scale[1])), Num(2)),
         Div(Sub(Num(self.configuration.resolution[2]),
                 Mul(Num(self.configuration.resolution[2]), self.options.scale[1])), Num(2)))

SlideFormatter_scaled_size(self) ==
    Size(Mul(Num(self.configuration.resolution[1]), self.options.scale[1]),
         Mul(Num(self.configuration.resolution[2]), self.options.scale[1]))

SlideFormatter_slide_filename(self) ==
    <<"o", "u", "t", "/", "s", "l", "i", "d", "e", "_">> \o format_03d(self.index) \o <<".", "p", "n", "g">>

SlideFormatter_render_background(self) ==
    <<Lit("convert"),
      Lit("-size"), SlideFormatter_format_resolution(self.configuration.resolution),
      Xc(self.options.background[1])>>

SlideFormatter_render_text(self, text) ==
    IF text = None THEN <<>>
    ELSE <<Lit("-page"), SlideFormatter_scaled_geometry(self),
           Lit("-size"), SlideFormatter_scaled_size(self),
           Lit("-background"), Lit("transparent"),
           Lit("-fill"), Str(self.options.foreground[1]),
           Lit("-font"), Lit("DeJaVu-Sans"),
           Lit("-gravity"), Lit("Center"),
           Label(text[1])>>

SlideFormatter_render_image(self, path) ==
    <<Lit("-background"), Lit("transparent"),
      Lit("-gravity"), Lit("Center"),
      Str(path),
      Lit("-resize"), Resize(self.configuration.resolution[1],
                             self.configuration.resolution[2], self.options.cover = Some(TRUE)),
      Lit("-extent"), SlideFormatter_format_resolution(self.configuration.resolution)>>

SlideFormatter_render_text_slide(self) ==
    ExecCommand(SlideFormatter_render_background(self)
                \o SlideFormatter_render_text(self, Some(self.slide.text))
                \o <<Lit("-gravity"), Lit("Center"),
                     Lit("-layers"), Lit("flatten"),
                     Str(SlideFormatter_slide_filename(self))>>)

SlideFormatter_render_image_slide(self) ==
    ExecCommand(SlideFormatter_render_background(self)
                \o SlideFormatter_render_image(self, self.slide.image_path)
                \o SlideFormatter_render_text(self, self.slide.text)
                \o <<Lit("-flatten"),
                     Str(SlideFormatter_slide_filename(self))>>)

\* lines 53-59: the command, or the ValueError of an unsupported slide
SlideFormatter_render(self) ==
    IF self.slide.type = "TextSlide" THEN SlideFormatter_render_text_slide(self)
    ELSE IF self.slide.type = "ImageSlide" THEN SlideFormatter_render_image_slide(self)
    ELSE ValueError

RECURSIVE Formatter_render_loop(_, _, _, _)
Formatter_render_loop(configuration_, presentation, i, commands_) ==
    IF i = Len(presentation.slides) THEN [type |-> "ok", value |-> commands_]
    ELSE LET Rendered(command) ==
                 IF Raised(command) THEN command
                 ELSE Formatter_render_loop(configuration_, presentation, i + 1,
                                            Append(commands_, command))
         IN  Rendered(SlideFormatter_render(
                          SlideFormatter(configuration_, presentation,
                                         presentation.slides[i + 1], i)))

\* lines 39-44: the command list, or the ValueError of a slide
Formatter_render(configuration_, presentation) ==
    Formatter_render_loop(configuration_, presentation, 0,
                          <<RmDirCommand(OUT), MkDirCommand(OUT)>>)

(***************************************************************************)
(* Input texts.                                                            *)
(***************************************************************************)
\* the text whose lines are ls, with or without a final newline
SourceOf(ls, final_newline) ==
    join(<<"\n">>, ls) \o (IF final_newline /\ ls # <<>> THEN <<"\n">> ELSE <<>>)

\* the texts of at most max_lines lines of line_set; endings tells whether texts
\* with (TRUE) and without (FALSE) a final newline are drawn
SourcesOver(line_set, max_lines, endings) ==
    {SourceOf(ls, nl) : ls \in UNION {[1..k -> line_set] : k \in 0..max_lines},
                        nl \in endings}

MaxLines == 4

MaxOptionLines == 4

MaxMemeLines == 6

MaxTextLines == 3

MaxEscapeLines == 3

MaxIncludeLines == 3

MaxMemeIncludeLines == 6

LBlank == <<>>

\* a space and a no-break space
LSpace == <<" ", "U+00A0">>

LText == <<"a">>

LTextHash == <<"a", "#">>

LIndented == <<" ", "a">>

\* two lines of str.splitlines(): a form feed is a line boundary
LFormFeed == <<"a", "\f", "b">>

LComment == <<"#", "c">>

LEsc == <<"\\">>

LEscHash == <<"\\", "#">>

LEscEsc == <<"\\", "\\", "a">>

LImg == <<"@", "i", "m", "g", " ", "p">>

LImgNoPath == <<"@", "i", "m", "g">>

LImgTwo == <<"@", "i", "m", "g", " ", "p", " ", "q">>

LCode == <<"@", "c", "o", "d", "e", " ", "s">>

LCodeNoPath == <<"@", "c", "o", "d", "e">>

LCodeTwo == <<"@", "c", "o", "d", "e", " ", "s", " ", "q">>

LFg == <<":", "f", "g", " ", "g">>

LBg == <<":", "b", "g", " ", "b">>

LScale == <<":", "s", "c", "a", "l", "e", " ", "2">>

LScaleHalf == <<":", "s", "c", "a", "l", "e", " ", "0", ".", "5">>

LScaleOdd == <<":", "s", "c", "a", "l", "e", " ", "4", ".", "4">>

LScaleBad == <<":", "s", "c", "a", "l", "e", " ", "x">>

LMeme == <<":", "s", "t", "y", "l", "e", " ", "m", "e", "m", "e">>

LStyleBad == <<":", "s", "t", "y", "l", "e", " ", "x">>

LNoStyle == <<":", "n", "o", "s", "t", "y", "l", "e">>

LCover == <<":", "c", "o", "v", "e", "r">>

LNoCover == <<":", "n", "o", "c", "o", "v", "e", "r">>

Lines == {LBlank, LSpace, LText, LTextHash, LComment, LEscHash, LImg, LCover, LStyleBad}

OptionLines == {LFg, LBg, LScaleHalf, LMeme, LNoStyle, LCover, LNoCover, LBlank, LText}

MemeLines == {LMeme, LNoStyle, LImg, LText, LBlank}

TextLines == {LText, LTextHash, LIndented, LFormFeed, LComment, LEscHash, LBlank, LCover}

EscapeLines == {LText, LEsc, LEscHash, LEscEsc, LImg, LBlank}

IncludeLines ==
    {LImg, LImgNoPath, LImgTwo, LCode, LCodeNoPath, LCodeTwo, LText, LBlank, LCover, LStyleBad}

\* the lines of an image chunk with style meme and a caption
MemeIncludeLines == {LMeme, LImg, LText}

(***************************************************************************)
(* What the external tools and the command line may give.                  *)
(***************************************************************************)
MaxRenderLines == 3

\* the calls of a pipeline entry point that a caller other than cli.py makes
MaxRenders == 2

\* --resolution, default 1920x1080 (cli.py line 29)
DefaultResolution == <<1920, 1080>>

\* outputs of `identify -format '%w %h'`: two sizes that leave the canvas its height
\* and one that leaves it its width, a size of height 0, and an output that cannot
\* be read
IdentifyOutputs ==
    {<<"4", " ", "3">>, <<"3", " ", "4">>, <<"3", " ", "1">>, <<"4", " ", "0">>, <<"4">>}

\* the output of `convert -list font`: a font for the captions of a meme and one
\* for code; its second line, not indented, names no font, so none for text
FontListings ==
    {<<" ", "F", "o", "n", "t", ":", " ", "I", "m", "p", "a", "c", "t", "\n", "F", "o", "n", "t", ":", " ", "U", "b", "u", "n", "t", "u", "\n", " ", "F", "o", "n", "t", ":", " ", "U", "b", "u", "n", "t", "u", "-", "M", "o", "n", "o", "\n">>}

\* directory out before the process starts: absent, or holding a file
OutDirectories == {None, Some({<<"o", "u", "t", "/", "s", "l", "i", "d", "e", "_", "0", "0", "7", ".", "p", "n", "g">>})}

RenderLines == {LBlank, LText, LImg, LCode, LMeme, LScaleOdd}

MaxMalformedLines == 3

MalformedLines == {LBlank, LComment, LText, LScale, LScaleBad, LStyleBad}

(***************************************************************************)
(* parse() as a state machine: one action per statement of parse, the      *)
(* slides built one chunk at a time in list order.                         *)
(***************************************************************************)
NoResult == [type |-> "running"]

ParserStart(sources) ==
    /\ source \in sources
    /\ pc = "lines"
    /\ lines = <<>>
    /\ parsed_lines = <<>>
    /\ chunks = <<>>
    /\ presentation_default_slide_options = SlideOptions
    /\ slides = <<>>
    /\ result = NoResult

\* the process before any pipeline ran: nothing rendered, no font list cached
RendererStart(resolutions, out_directories) ==
    /\ configuration \in {Configuration(r) : r \in resolutions}
    /\ out \in out_directories
    /\ rpc = "idle"
    /\ renders = 0
    /\ slide_index = 0
    /\ image_size = None
    /\ available_fonts = None
    /\ commands = <<>>
    /\ command_index = 0
    /\ calls = <<>>
    /\ raised = NoException

InitOver(sources) ==
    /\ ParserStart(sources)
    /\ RendererStart({DefaultResolution}, {None})

Init == InitOver(SourcesOver(Lines, MaxLines, {TRUE}))

\* line 62
FilterLines ==
    /\ pc = "lines"
    /\ lines' = _filter_comments(_split_into_lines(source))
    /\ pc' = "parse_lines"
    /\ UNCHANGED <<source, parsed_lines, chunks, presentation_default_slide_options,
                   slides, result>>
    /\ UNCHANGED renderer_vars

\* line 63
ParseLines ==
    /\ pc = "parse_lines"
    /\ LET parsed == _parse_lines(lines)
       IN  IF Raised(parsed)
           THEN /\ result' = parsed
                /\ pc' = "done"
                /\ UNCHANGED parsed_lines
           ELSE /\ parsed_lines' = parsed.value
                /\ pc' = "chunks"
                /\ UNCHANGED result
    /\ UNCHANGED <<source, lines, chunks, presentation_default_slide_options, slides>>
    /\ UNCHANGED renderer_vars

\* line 64
SplitIntoChunks ==
    /\ pc = "chunks"
    /\ chunks' = _split_into_chunks(parsed_lines)
    /\ pc' = "options"
    /\ UNCHANGED <<source, lines, parsed_lines, presentation_default_slide_options,
                   slides, result>>
    /\ UNCHANGED renderer_vars

\* lines 66-70: chunks.pop(0) of line 67 has taken the leading chunk when its
\* options raise; without a chunk chunks[0] raises and nothing is taken
PresentationOptions ==
    /\ pc = "options"
    /\ LET first == _presentation_options(chunks)
       IN  IF Raised(first)
           THEN /\ result' = first
                /\ pc' = "done"
                /\ chunks' = IF chunks = <<>> THEN chunks ELSE Tail(chunks)
                /\ UNCHANGED presentation_default_slide_options
           ELSE /\ chunks' = first.chunks
                /\ presentation_default_slide_options' = first.options
                /\ pc' = "slides"
                /\ UNCHANGED result
    /\ UNCHANGED <<source, lines, parsed_lines, slides>>
    /\ UNCHANGED renderer_vars

\* line 72, one element of the list comprehension
ParseChunkToSlide ==
    /\ pc = "slides"
    /\ Len(slides) < Len(chunks)
    /\ LET slide == _parse_chunk_to_slide(chunks[Len(slides) + 1],
                                          presentation_default_slide_options)
       IN  IF Raised(slide)
           THEN /\ result' = slide
                /\ pc' = "done"
                /\ UNCHANGED slides
           ELSE /\ slides' = Append(slides, slide)
                /\ UNCHANGED <<pc, result>>
    /\ UNCHANGED <<source, lines, parsed_lines, chunks, presentation_default_slide_options>>
    /\ UNCHANGED renderer_vars

\* line 74
Return ==
    /\ pc = "slides"
    /\ Len(slides) = Len(chunks)
    /\ result' = Presentation(slides)
    /\ pc' = "done"
    /\ UNCHANGED <<source, lines, parsed_lines, chunks, presentation_default_slide_options,
                   slides>>
    /\ UNCHANGED renderer_vars

Next ==
    \/ FilterLines
    \/ ParseLines
    \/ SplitIntoChunks
    \/ PresentationOptions
    \/ ParseChunkToSlide
    \/ Return

Spec == Init /\ [][Next]_vars

SpecOptions == InitOver(SourcesOver(OptionLines, MaxOptionLines, {TRUE})) /\ [][Next]_vars

SpecMeme == InitOver(SourcesOver(MemeLines, MaxMemeLines, BOOLEAN)) /\ [][Next]_vars

SpecText == InitOver(SourcesOver(TextLines, MaxTextLines, BOOLEAN)) /\ [][Next]_vars

SpecEscape == InitOver(SourcesOver(EscapeLines, MaxEscapeLines, BOOLEAN)) /\ [][Next]_vars

SpecInclude ==
    /\ InitOver(SourcesOver(IncludeLines, MaxIncludeLines, BOOLEAN)
                \cup SourcesOver(MemeIncludeLines, MaxMemeIncludeLines, {TRUE}))
    /\ [][Next]_vars

SpecMalformed ==
    InitOver(SourcesOver(MalformedLines, MaxMalformedLines, BOOLEAN)) /\ [][Next]_vars

Done == pc = "done"

Returned == pc = "done" /\ result.type = "Presentation"

\* the stepwise run ends with what parse(source) gives
RunMatchesParse == Done => result = parse(source)

(***************************************************************************)
(* The pipelines after parse(), one action per os / subprocess call.  A    *)
(* process calls one entry point, once (cli.py lines 22-23); the call ends *)
(* by returning or by raising.  calls is the record of the calls made.     *)
(* The entry points are public: SpecReuse is the pipelines under a caller  *)
(* that calls them again in the same process.                              *)
(***************************************************************************)
NoCommands == <<>>

Call(call, arg, ok) ==
    [call |-> call, arg |-> arg, render |-> renders, slide_index |-> slide_index, ok |-> ok]

Self ==
    ImageMagickSlideRenderer(configuration, result.slides[slide_index + 1], slide_index,
                             image_size)

\* an exception that is noted while the run goes on
Raise_and_go_on(exc) ==
    /\ rpc' = rpc
    /\ raised' = exc

\* the run ends with the exception exc
Raise(exc) ==
    /\ rpc' = "raised"
    /\ raised' = exc

\* the loop of render() moves to the next slide, a new ImageMagickSlideRenderer
NextSlide ==
    /\ slide_index' = slide_index + 1
    /\ image_size' = None
    /\ rpc' = IF slide_index + 1 = Len(result.slides) THEN "finished" ELSE "slide"

\* cli.py lines 16-23: parse() has returned and the pipeline has not been called
Idle == Returned /\ rpc = "idle"

\* a call of a pipeline entry point has ended, by returning or by raising: a caller
\* other than cli.py that keeps the presentation and the renderer can call again
Ended == Returned /\ rpc \in {"finished", "raised"} /\ renders < MaxRenders

\* renderer.py lines 28-29 and 34-37
ImageMagickRenderer_render ==
    /\ renders' = renders + 1
    /\ calls' = calls
                \o (IF out # None
                    THEN <<[call |-> "rmtree", arg |-> OUT, render |-> renders + 1,
                            slide_index |-> -1, ok |-> TRUE]>>
                    ELSE <<>>)
                \o <<[call |-> "makedirs", arg |-> OUT, render |-> renders + 1,
                      slide_index |-> -1, ok |-> TRUE]>>
    /\ out' = Some({})
    /\ slide_index' = 0
    /\ image_size' = None
    /\ raised' = NoException
    /\ rpc' = IF result.slides = <<>> THEN "finished" ELSE "slide"
    /\ UNCHANGED <<configuration, available_fonts, commands, command_index>>
    /\ UNCHANGED parser_vars

\* cli.py line 23, the call the program makes
Render == Idle /\ ImageMagickRenderer_render

\* ImageMagickRenderer.render is public: a further call in the same process
RenderAgain == Ended /\ ImageMagickRenderer_render

\* lines 66 and 193-196
DetermineRawImageSize ==
    /\ rpc = "slide"
    /\ Self.slide.type = "ImageSlide"
    /\ \E ok \in BOOLEAN, output \in IdentifyOutputs :
           /\ calls' = Append(calls, Call("check_output", identify_command(Self), ok))
           /\ IF ~ok
              THEN Raise(CalledProcessError) /\ UNCHANGED image_size
              ELSE LET Read(size) ==
                           IF Raised(size)
                           THEN Raise(size) /\ UNCHANGED image_size
                           ELSE /\ image_size' = Some(size.value)
                                /\ rpc' = "text"
                                /\ UNCHANGED raised
                   IN  Read(_determine_raw_image_size(output))
    /\ UNCHANGED <<configuration, out, renders, slide_index, available_fonts, commands, command_index>>
    /\ UNCHANGED parser_vars

\* what the text of a slide raises before it comes to _get_best_font: the
\* exception of _scaled_size (line 110), or of a meme the ValueError of line 128 and
\* the exception of its geometry (lines 132-135)
raised_before_font(self) ==
    LET Exception(x) == IF Raised(x) THEN x ELSE NoException
    IN  IF text_of(self.slide) = None THEN NoException
        ELSE IF self.slide.type = "ImageSlide" /\ self.slide.options.style = Some(MEME)
        THEN IF Len(splitlines(text_of(self.slide)[1])) > 2 THEN ValueError
             ELSE Exception(_meme_geometry(self))
        ELSE Exception(_scaled_size(self))

\* the slide renderer is about to call _get_best_font
NeedsFont ==
    \/ rpc = "slide" /\ Self.slide.type = "CodeSlide"
    \/ rpc = "slide" /\ Self.slide.type = "TextSlide" /\ ~Raised(raised_before_font(Self))
    \/ rpc = "text" /\ Self.slide.text # None /\ ~Raised(raised_before_font(Self))

\* _get_available_fonts without lru_cache
GetAvailableFonts_uncached ==
    /\ rpc \in {"slide", "text"}
    /\ NeedsFont
    /\ \E ok \in BOOLEAN, output \in FontListings :
           /\ calls' = Append(calls, Call("check_output", list_font_command, ok))
           /\ IF ~ok
              THEN Raise(CalledProcessError) /\ UNCHANGED available_fonts
              ELSE /\ available_fonts' = Some(_get_available_fonts(output))
                   /\ UNCHANGED <<rpc, raised>>
    /\ UNCHANGED <<configuration, out, renders, slide_index, image_size, commands, command_index>>
    /\ UNCHANGED parser_vars

\* lines 214-222, the body that lru_cache runs when it holds no result
GetAvailableFonts ==
    /\ rpc \in {"slide", "text"}
    /\ NeedsFont
    /\ available_fonts = None
    /\ \E ok \in BOOLEAN, output \in FontListings :
           /\ calls' = Append(calls, Call("check_output", list_font_command, ok))
           /\ IF ~ok
              THEN Raise(CalledProcessError) /\ UNCHANGED available_fonts
              ELSE /\ available_fonts' = Some(_get_available_fonts(output))
                   /\ UNCHANGED <<rpc, raised>>
    /\ UNCHANGED <<configuration, out, renders, slide_index, image_size, commands, command_index>>
    /\ UNCHANGED parser_vars

\* lines 76-88
Pygmentize ==
    /\ rpc = "slide"
    /\ Self.slide.type = "CodeSlide"
    /\ available_fonts # None
    /\ \E ok \in BOOLEAN :
           /\ calls' = Append(calls, Call("check_output",
                                          pygmentize_command(Self, available_fonts[1]), ok))
           /\ IF ~ok
              THEN Raise(CalledProcessError)
              ELSE rpc' = "highlighted" /\ UNCHANGED raised
    /\ UNCHANGED <<configuration, out, renders, slide_index, image_size, available_fonts,
                   commands, command_index>>
    /\ UNCHANGED parser_vars

\* the command of the slide's last _exec: lines 59-63, 67-73, 89-98
convert_command ==
    CASE Self.slide.type = "TextSlide" ->
             _render_text_slide(Self, IF available_fonts = None THEN <<>>
                                      ELSE available_fonts[1])
      [] Self.slide.type = "ImageSlide" ->
             _render_image_slide(Self, IF available_fonts = None THEN <<>>
                                       ELSE available_fonts[1])
      [] Self.slide.type = "CodeSlide" ->
             [type |-> "ok", value |-> _render_code_slide(Self)]

Convert ==
    /\ \/ rpc = "slide" /\ Self.slide.type = "TextSlide" /\ (NeedsFont => available_fonts # None)
       \/ rpc = "text" /\ (NeedsFont => available_fonts # None)
       \/ rpc = "highlighted"
    /\ LET Exec(command) ==
               IF Raised(command)
               THEN Raise(command) /\ UNCHANGED <<calls, out, slide_index, image_size>>
               ELSE \E ok \in BOOLEAN :
                        /\ calls' = Append(calls, Call("check_output", command.value, ok))
                        /\ IF ~ok
                           THEN Raise(CalledProcessError)
                                /\ UNCHANGED <<out, slide_index, image_size>>
                           ELSE /\ out' = Some(out[1] \cup {_slide_filename(Self)})
                                /\ NextSlide
                                /\ UNCHANGED raised
       IN  Exec(convert_command)
    /\ UNCHANGED <<configuration, renders, available_fonts, commands, command_index>>
    /\ UNCHANGED parser_vars

\* formatter.py lines 39-44, the argument of DefaultExecutor.execute
Formatter_render_call ==
    /\ renders' = renders + 1
    /\ command_index' = 0
    /\ LET Built(built) ==
               IF Raised(built)
               THEN Raise(built) /\ commands' = NoCommands
               ELSE /\ commands' = built.value
                    /\ rpc' = "execute"
                    /\ raised' = NoException
       IN  Built(Formatter_render(configuration, result))
    /\ UNCHANGED <<configuration, out, slide_index, image_size, available_fonts, calls>>
    /\ UNCHANGED parser_vars

\* the call of the earlier pipeline, made once
Format == Idle /\ Formatter_render_call

\* Formatter.render and DefaultExecutor.execute are public: a further call in the
\* same process
FormatAgain == Ended /\ Formatter_render_call

\* the loop of execute() moves to the next command
NextCommand ==
    /\ command_index' = command_index + 1
    /\ rpc' = IF command_index + 1 = Len(commands) THEN "finished" ELSE "execute"

\* executor.py lines 18-27, one command of the loop
Execute ==
    /\ rpc = "execute"
    /\ LET command == commands[command_index + 1]
       IN  CASE command.type = "ExecCommand" ->
                    \E ok \in BOOLEAN :
                        /\ calls' = Append(calls, [call |-> "check_output",
                                                   arg |-> command.command,
                                                   render |-> renders,
                                                   slide_index |-> command_index - 2,
                                                   ok |-> ok])
                        /\ IF ~ok
                           THEN Raise(CalledProcessError) /\ UNCHANGED <<out, command_index>>
                           ELSE /\ out' = IF out = None THEN out
                                          ELSE Some(out[1] \cup
                                                    {command.command[Len(command.command)][2]})
                                /\ NextCommand
                                /\ UNCHANGED raised
             [] command.type = "RmDirCommand" ->
                    /\ calls' = IF out # None
                                THEN Append(calls, [call |-> "rmtree", arg |-> command.path,
                                                    render |-> renders, slide_index |-> -1,
                                                    ok |-> TRUE])
                                ELSE calls
                    /\ out' = None
                    /\ NextCommand
                    /\ UNCHANGED raised
             [] command.type = "MkDirCommand" ->
                    /\ calls' = Append(calls, [call |-> "makedirs", arg |-> command.path,
                                               render |-> renders, slide_index |-> -1,
                                               ok |-> out = None])
                    /\ IF out # None
                       THEN Raise([type |-> "FileExistsError"]) /\ UNCHANGED <<out, command_index>>
                       ELSE /\ out' = Some({})
                            /\ NextCommand
                            /\ UNCHANGED raised
    /\ UNCHANGED <<configuration, renders, slide_index, image_size, available_fonts,
                   commands>>
    /\ UNCHANGED parser_vars

\* cli.py lines 17-23: parse(), then the pipeline, which a process calls once: the
\* renderer, or the earlier Formatter.render() handed to DefaultExecutor.execute()
RenderNext ==
    \/ Next
    \/ Render
    \/ DetermineRawImageSize
    \/ GetAvailableFonts
    \/ Pygmentize
    \/ Convert
    \/ Format
    \/ Execute

RenderInit ==
    /\ ParserStart(SourcesOver(RenderLines, MaxRenderLines, {TRUE}))
    /\ RendererStart({DefaultResolution}, OutDirectories)

SpecRender == RenderInit /\ [][RenderNext]_vars

\* the pipelines under a caller that calls an entry point up to MaxRenders times
ReuseNext ==
    \/ RenderNext
    \/ RenderAgain
    \/ FormatAgain

SpecReuse == RenderInit /\ [][ReuseNext]_vars

(***************************************************************************)
(* The source and the chunks as the claims speak of them.                  *)
(***************************************************************************)
RawLines == splitlines(source)

\* all chunks of the classified lines, the leading options chunk included
AllChunks == _split_into_chunks(parsed_lines)

PresentationChunk ==
    IF AllChunks # <<>> /\ _is_option_only_chunk(AllChunks[1]) THEN AllChunks[1] ELSE <<>>

\* the chunk whose slide is built next
Building == pc = "slides" /\ Len(slides) < Len(chunks)

NextChunk == chunks[Len(slides) + 1]

IncludesOf(chunk) ==
    SelectSeq(chunk, LAMBDA line : line.type \in {"IncludeImageLine", "IncludeCodeLine"})

NonOptionLines(chunk) == SelectSeq(chunk, LAMBDA line : line.type # "OptionLine")

BgKeys == {<<"b", "g">>}

FgKeys == {<<"f", "g">>}

CoverKeys == {<<"c", "o", "v", "e", "r">>, <<"n", "o", "c", "o", "v", "e", "r">>}

StyleKeys == {<<"s", "t", "y", "l", "e">>, <<"n", "o", "s", "t", "y", "l", "e">>}

ScaleKeys == {<<"s", "c", "a", "l", "e">>}

\* what one accepted option directive sets its field to
DirectiveValue(line) ==
    CASE line.key \in BgKeys \cup FgKeys -> line.args[1]
      [] line.key = <<"c", "o", "v", "e", "r">> -> TRUE
      [] line.key = <<"n", "o", "c", "o", "v", "e", "r">> -> FALSE
      [] line.key = <<"s", "t", "y", "l", "e">> -> "MEME"
      [] line.key = <<"n", "o", "s", "t", "y", "l", "e">> -> "DEFAULT"
      [] line.key \in ScaleKeys -> float(line.args[1])

\* the value the last directive of the chunk for a field sets, None if there is none
LastDirective(chunk, keys) ==
    LET idx == {i \in 1..Len(chunk) : chunk[i].type = "OptionLine" /\ chunk[i].key \in keys}
    IN  IF idx = {} THEN None
        ELSE Some(DirectiveValue(chunk[CHOOSE i \in idx : \A j \in idx : j <= i]))

\* slide chunk, then presentation chunk, then the fixed default
Cascade(chunk, keys, default) ==
    IF LastDirective(chunk, keys) # None THEN LastDirective(chunk, keys)
    ELSE IF LastDirective(PresentationChunk, keys) # None
    THEN LastDirective(PresentationChunk, keys)
    ELSE Some(default)

\* C1: every returned slide's five option fields follow the cascade slide chunk,
\* presentation chunk, fixed default {black, white, false, Default, 1}, an explicit
\* :nocover or :nostyle counting as set; so no field of a returned slide is unset.
C1_CascadePerField ==
    Returned =>
        \A k \in 1..Len(result.slides) :
            LET o == result.slides[k].options
                c == chunks[k]
            IN  /\ o.background = Cascade(c, BgKeys, <<"b", "l", "a", "c", "k">>)
                /\ o.foreground = Cascade(c, FgKeys, <<"w", "h", "i", "t", "e">>)
                /\ o.cover = Cascade(c, CoverKeys, FALSE)
                /\ o.style = Cascade(c, StyleKeys, "DEFAULT")
                /\ o.scale = Cascade(c, ScaleKeys, Num(1))
                /\ None \notin {o.background, o.foreground, o.cover, o.style, o.scale}

\* a returned slide whose own :nocover overrides the presentation's :cover, and whose
\* background comes from the fixed default
C1_Witness ==
    /\ Returned
    /\ \E k \in 1..Len(result.slides) :
           /\ LastDirective(chunks[k], CoverKeys) = Some(FALSE)
           /\ LastDirective(PresentationChunk, CoverKeys) = Some(TRUE)
           /\ result.slides[k].options.cover = Some(FALSE)
           /\ LastDirective(chunks[k], BgKeys) = None
           /\ LastDirective(PresentationChunk, BgKeys) = None
           /\ result.slides[k].options.background = Some(<<"b", "l", "a", "c", "k">>)

\* the image chunks (options included) whose resolved style is Meme and that hold
\* more than two text lines
MemeOverlong(chunk) ==
    /\ _is_image_chunk(chunk)
    /\ Cascade(chunk, StyleKeys, "DEFAULT") = Some("MEME")
    /\ Len(LinesOfKind(chunk, "TextLine")) > 2

CaptionLines(slide) == IF slide.text = None THEN <<>> ELSE splitlines(slide.text[1])

\* C2: a source with an image chunk whose resolved style is Meme and that has more
\* than two text lines fails with a ParsingError, the "cannot have more than 2 lines"
\* one being at the third text line of such a chunk, whether :style meme is the
\* chunk's own or the presentation's; so no returned image slide of style Meme has a
\* caption of more than 2 lines.
C2_MemeCaptionLimit ==
    /\ (Done /\ \E i \in 1..Len(AllChunks) : MemeOverlong(AllChunks[i]))
           => /\ result.type = "ParsingError"
              /\ (result.message.text =
                      "Image slide with style meme cannot have more than 2 lines of text")
                     => \E i \in 1..Len(AllChunks) :
                            /\ MemeOverlong(AllChunks[i])
                            /\ result.line = LinesOfKind(AllChunks[i], "TextLine")[3].index
    /\ Returned =>
           \A k \in 1..Len(result.slides) :
               (/\ result.slides[k].type = "ImageSlide"
                /\ result.slides[k].options.style = Some("MEME"))
                   => Len(CaptionLines(result.slides[k])) <= 2

IsBlankRaw(l) == strip(l) = <<>>

IsCommentRaw(l) == startswith(l, "#")

IsDirectiveRaw(l) == startswith(l, ":") \/ startswith(l, "@")

IsEscapedRaw(l) == startswith(l, "\\")

StripTrailingNewline(s) ==
    IF s # <<>> /\ s[Len(s)] = "\n" THEN SubSeq(s, 1, Len(s) - 1) ELSE s

OneTextSlide(text) ==
    /\ result.type = "Presentation"
    /\ Len(result.slides) = 1
    /\ result.slides[1].type = "TextSlide"
    /\ result.slides[1].text = text

HasContentLine ==
    \E i \in 1..Len(RawLines) : ~IsBlankRaw(RawLines[i]) /\ ~IsCommentRaw(RawLines[i])

\* C3 as stated: an input without blank lines and without directives gives exactly
\* one text slide whose text is the input less its trailing newline (stated for the
\* inputs that hold a line to make a slide of).
C3_Original ==
    (/\ Done
     /\ HasContentLine
     /\ \A i \in 1..Len(RawLines) : ~IsBlankRaw(RawLines[i]) /\ ~IsDirectiveRaw(RawLines[i]))
        => OneTextSlide(StripTrailingNewline(source))

\* the newline is the only line boundary of the source
NewlineOnly == \A i \in 1..Len(source) : source[i] \in LineBoundaries => source[i] = "\n"

PlainTextOnly ==
    /\ RawLines # <<>>
    /\ NewlineOnly
    /\ \A i \in 1..Len(RawLines) :
           /\ ~IsBlankRaw(RawLines[i])
           /\ ~IsDirectiveRaw(RawLines[i])
           /\ ~IsCommentRaw(RawLines[i])
           /\ ~IsEscapedRaw(RawLines[i])

\* C3 amended: a non-empty input without blank lines, directives, comment lines
\* (leading '#') and escaped lines (leading backslash), and with no line boundary
\* but the newline, gives exactly one text slide whose text is the input less its
\* trailing newline.
C3_PlainTextOneSlide == (Done /\ PlainTextOnly) => OneTextSlide(StripTrailingNewline(source))

\* two or more plain lines ending in a newline, parsed into the one slide
C3_Witness ==
    /\ Done
    /\ PlainTextOnly
    /\ Len(RawLines) >= 2
    /\ source[Len(source)] = "\n"
    /\ OneTextSlide(StripTrailingNewline(source))

\* the text a source line is to contribute: one leading backslash removed
EscapedOnce(l) == IF startswith(l, "\\") THEN DropFirst(l) ELSE l

ExpectedText(chunk) ==
    LET tl == LinesOfKind(chunk, "TextLine")
    IN  join(<<"\n">>, [j \in 1..Len(tl) |-> EscapedOnce(RawLines[tl[j].index + 1])])

\* C4: the text of every returned text slide and image caption is its chunk's text
\* lines, each with exactly one leading backslash removed if it had one and
\* otherwise unchanged; a line of two leading backslashes keeps one.
C4_OneBackslashRemoved ==
    Returned =>
        \A k \in 1..Len(result.slides) :
            LET slide == result.slides[k]
            IN  /\ slide.type = "TextSlide" => slide.text = ExpectedText(chunks[k])
                /\ slide.type = "ImageSlide" =>
                       slide.text = IF ExpectedText(chunks[k]) = <<>> THEN None
                                    ELSE Some(ExpectedText(chunks[k]))

IsIncludeRaw(l) == startswith(l, "@") /\ split(l)[1] \in {IMG_KEYWORD, CODE_KEYWORD}

\* the include lines that do not have exactly one argument, by position (1-based)
BadArity ==
    {i \in 1..Len(RawLines) : IsIncludeRaw(RawLines[i]) /\ Len(split(RawLines[i])) # 2}

\* C5: no returned presentation comes from a source with an @img or @code line
\* that has no argument or more than one: such a source fails with the "No path
\* given" ParsingError at such a line.
C5_ExactlyOneArgument ==
    /\ Returned => BadArity = {}
    /\ (Done /\ BadArity # {}) =>
           \E i \in BadArity :
               result = ParsingError(i - 1, "No path given in {} statement",
                                     split(RawLines[i])[1])

\* the chunk built next has parsable options and at least two include directives
BuildingTwoIncludes ==
    /\ Building
    /\ ~Raised(_parse_options(NextChunk))
    /\ Len(IncludesOf(NextChunk)) >= 2

\* C6 as stated: building a chunk with two or more include directives raises a
\* ParsingError at the line of the chunk's second include directive.
C6_Original ==
    [][BuildingTwoIncludes =>
           /\ result'.type = "ParsingError"
           /\ result'.line = IncludesOf(NextChunk)[2].index]_vars

CodeFirstInImageChunk(chunk) ==
    /\ IncludesOf(chunk)[1].type = "IncludeCodeLine"
    /\ LinesOfKind(chunk, "IncludeImageLine") # <<>>

\* the chunk's own options set style meme
OwnMeme(chunk) == LastDirective(chunk, StyleKeys) = Some("MEME")

\* the lines a chunk with an @img is rejected for besides a second include: each
\* @code and, under the chunk's own style meme, the third text line
RejectedInImageChunk(chunk) ==
    {LinesOfKind(chunk, "IncludeCodeLine")[i].index :
         i \in DOMAIN LinesOfKind(chunk, "IncludeCodeLine")}
    \cup (IF OwnMeme(chunk) /\ Len(LinesOfKind(chunk, "TextLine")) >= 3
          THEN {LinesOfKind(chunk, "TextLine")[3].index} ELSE {})

\* the lines a chunk without @img is rejected for besides a second include: each
\* text line
RejectedInCodeChunk(chunk) ==
    {LinesOfKind(chunk, "TextLine")[i].index : i \in DOMAIN LinesOfKind(chunk, "TextLine")}

\* the line reported for a chunk of two or more includes: that of the second
\* include, or that of the first line before it that is rejected
ReportedLine(chunk) ==
    LET before == {n \in (IF LinesOfKind(chunk, "IncludeImageLine") # <<>>
                          THEN RejectedInImageChunk(chunk)
                          ELSE RejectedInCodeChunk(chunk)) :
                       n < IncludesOf(chunk)[2].index}
    IN  IF before = {} THEN IncludesOf(chunk)[2].index
        ELSE CHOOSE n \in before : \A m \in before : n <= m

\* C6 amended: no source with a chunk of two or more include directives returns a
\* presentation; building such a chunk (options parsed) raises a ParsingError at the
\* line of its second include directive, unless a line before it is rejected first,
\* which is then the line reported: in a chunk with an @img its first @code or, under
\* the chunk's own style meme, its third text line; in a chunk without @img its first
\* text line.
C6_TwoIncludesRejected ==
    [][/\ BuildingTwoIncludes =>
              /\ result'.type = "ParsingError"
              /\ result'.line = ReportedLine(NextChunk)
       /\ (pc' = "done" /\ result'.type = "Presentation") =>
              \A i \in 1..Len(AllChunks) : Len(IncludesOf(AllChunks[i])) < 2]_vars

FailedChunk == chunks[Len(slides) + 1]

\* parse failed on an image chunk with a caption line between its two @img: the
\* error is at the second @img
C6_Witness ==
    /\ Done
    /\ result.type = "ParsingError"
    /\ Len(slides) < Len(chunks)
    /\ Len(IncludesOf(FailedChunk)) >= 2
    /\ ~Raised(_parse_options(FailedChunk))
    /\ IncludesOf(FailedChunk)[1].type = "IncludeImageLine"
    /\ IncludesOf(FailedChunk)[2].type = "IncludeImageLine"
    /\ \E i \in DOMAIN LinesOfKind(FailedChunk, "TextLine") :
           /\ LinesOfKind(FailedChunk, "TextLine")[i].index > IncludesOf(FailedChunk)[1].index
           /\ LinesOfKind(FailedChunk, "TextLine")[i].index < IncludesOf(FailedChunk)[2].index
    /\ result.line = IncludesOf(FailedChunk)[2].index

\* a chunk with exactly one @code, no @img and at least one text line
CodeChunkWithText(chunk) ==
    /\ Len(LinesOfKind(chunk, "IncludeCodeLine")) = 1
    /\ ~_is_image_chunk(chunk)
    /\ LinesOfKind(chunk, "TextLine") # <<>>

TextLineNotSupported(chunk) ==
    ParsingError(LinesOfKind(chunk, "TextLine")[1].index,
                 "{} not supported in code slide",
                 <<"T", "e", "x", "t", " ", "l", "i", "n", "e">>)

OptionIndexes(chunk) ==
    {LinesOfKind(chunk, "OptionLine")[i].index : i \in DOMAIN LinesOfKind(chunk, "OptionLine")}

\* C7 as stated: a source with a chunk of one @code, no @img and a text line fails
\* with ParsingError "Text line not supported in code slide" at the first text line
\* of that chunk.
C7_Original ==
    Done =>
        \A i \in 1..Len(AllChunks) :
            CodeChunkWithText(AllChunks[i]) => result = TextLineNotSupported(AllChunks[i])

\* C7 amended: building a chunk with one @code, no @img and a text line (before or
\* after the @code line) whose own options parse raises ParsingError "Text line not
\* supported in code slide" at the first text line; when an option directive of the
\* chunk is rejected its exception is raised instead; a code slide is built only
\* from a chunk whose single non-option line is the @code line.
C7_CodeChunkOnlyCode ==
    [][/\ (Building /\ ~Raised(_parse_options(NextChunk)) /\ CodeChunkWithText(NextChunk)) =>
              result' = TextLineNotSupported(NextChunk)
       /\ (Building /\ Raised(_parse_options(NextChunk)) /\ CodeChunkWithText(NextChunk)) =>
              /\ pc' = "done"
              /\ result'.type # "Presentation"
              /\ result' # TextLineNotSupported(NextChunk)
              /\ result'.type = "ParsingError" => result'.line \in OptionIndexes(NextChunk)
       /\ (Building /\ Len(slides') > Len(slides)
             /\ slides'[Len(slides')].type = "CodeSlide") =>
              /\ Len(NonOptionLines(NextChunk)) = 1
              /\ NonOptionLines(NextChunk)[1].type = "IncludeCodeLine"]_vars

\* parse failed on a code chunk whose text line comes before its @code line
C7_Witness ==
    /\ Done
    /\ result.type = "ParsingError"
    /\ Len(slides) < Len(chunks)
    /\ CodeChunkWithText(FailedChunk)
    /\ NonOptionLines(FailedChunk)[1].type = "TextLine"
    /\ result.line = NonOptionLines(FailedChunk)[1].index
    /\ result.message.text = "{} not supported in code slide"

\* the source with every line that starts with '#' deleted
DeleteComments(source_) ==
    SourceOf(SelectSeq(splitlines(source_), LAMBDA l : ~IsCommentRaw(l)), TRUE)

SameOutcome(r1, r2) ==
    /\ r1.type = r2.type
    /\ r1.type = "Presentation" => r1.slides = r2.slides
    /\ r1.type = "ParsingError" => r1.message = r2.message

\* C8: parse gives the same slides (or the same failure) as for the source with its
\* comment lines deleted, and a line holding '#' elsewhere than first (or after a
\* leading backslash) is classified as text that keeps the '#'.
C8_CommentsAbsent ==
    /\ Done => SameOutcome(result, parse(DeleteComments(source)))
    /\ Returned =>
           \A i \in 1..Len(RawLines) :
               LET l == RawLines[i]
               IN  (/\ ~IsCommentRaw(l) /\ ~IsDirectiveRaw(l)
                    /\ \E j \in 1..Len(l) : l[j] = "#")
                       => \E n \in 1..Len(parsed_lines) :
                              parsed_lines[n] = TextLine(EscapedOnce(l), i - 1)

\* a comment line between two text lines, and one slide of two lines returned
C8_Witness ==
    /\ Returned
    /\ Len(result.slides) = 1
    /\ result.slides[1].type = "TextSlide"
    /\ Len(splitlines(result.slides[1].text)) = 2
    /\ \E i \in 2..(Len(RawLines) - 1) :
           /\ IsCommentRaw(RawLines[i])
           /\ ~IsBlankRaw(RawLines[i - 1]) /\ ~IsCommentRaw(RawLines[i - 1])
           /\ ~IsBlankRaw(RawLines[i + 1]) /\ ~IsCommentRaw(RawLines[i + 1])

\* the maximal runs of non-blank lines of a sequence of RawLine records
RunStarts(rls) ==
    {i \in 1..Len(rls) : ~IsBlankRaw(rls[i].value) /\ (i = 1 \/ IsBlankRaw(rls[i - 1].value))}

RunEnd(rls, i) ==
    CHOOSE j \in i..Len(rls) :
        /\ \A m \in i..j : ~IsBlankRaw(rls[m].value)
        /\ (j = Len(rls) \/ IsBlankRaw(rls[j + 1].value))

Runs(rls) ==
    [n \in 1..Cardinality(RunStarts(rls)) |->
        LET i == CHOOSE i \in RunStarts(rls) :
                     Cardinality({j \in RunStarts(rls) : j < i}) = n - 1
        IN  SubSeq(rls, i, RunEnd(rls, i))]

WithoutComments(rls) == SelectSeq(rls, LAMBDA line : ~IsCommentRaw(line.value))

\* a run consists solely of option directives (comment lines in it not counted)
OptionOnlyRun(run) ==
    /\ \A i \in 1..Len(run) : IsCommentRaw(run[i].value) \/ startswith(run[i].value, ":")
    /\ \E i \in 1..Len(run) : startswith(run[i].value, ":")

\* the runs that are to give a slide: all but a first run of option directives only
SlideRuns(rls) ==
    LET runs == Runs(rls)
    IN  IF runs # <<>> /\ OptionOnlyRun(runs[1]) THEN Tail(runs) ELSE runs

KindOfRun(run) ==
    IF \E i \in 1..Len(run) : startswith(run[i].value, "@") /\ split(run[i].value)[1] = IMG_KEYWORD
    THEN "ImageSlide"
    ELSE IF \E i \in 1..Len(run) :
                startswith(run[i].value, "@") /\ split(run[i].value)[1] = CODE_KEYWORD
    THEN "CodeSlide"
    ELSE "TextSlide"

Indices(ls) == [j \in 1..Len(ls) |-> ls[j].index]

\* slide k is built from the k-th slide run: same lines (comment lines apart), and
\* the kind its lines call for
SlidesFollowRuns(rls) ==
    LET runs == SlideRuns(rls)
    IN  /\ Len(result.slides) = Len(runs)
        /\ \A k \in 1..Len(runs) :
               /\ Indices(chunks[k]) = Indices(WithoutComments(runs[k]))
               /\ result.slides[k].type = KindOfRun(runs[k])

\* C9 as stated: the returned slides correspond one-to-one and in order to the
\* maximal runs of non-blank lines of the source, a first run of option directives
\* only being dropped.
C9_Original == (Returned /\ HasContentLine) => SlidesFollowRuns(_split_into_lines(source))

\* C9 amended: the returned slides correspond one-to-one and in order to the maximal
\* runs of non-blank lines of the source with its comment lines deleted, a first run
\* of option directives only being dropped; blank runs add no slide and a later
\* options-only run gives a slide.
C9_SlidesFollowRuns ==
    (Returned /\ HasContentLine) => SlidesFollowRuns(WithoutComments(_split_into_lines(source)))

\* a returned presentation with slides whose source holds a run of comment lines only
C9_Witness ==
    /\ Returned
    /\ Len(result.slides) >= 1
    /\ \E n \in 1..Len(Runs(_split_into_lines(source))) :
           WithoutComments(Runs(_split_into_lines(source))[n]) = <<>>

\* C10: the returned Presentation's options field is the resolved presentation-level
\* options, every field set: the record used as the fallback tier of its slides.
C10_PresentationCarriesOptions ==
    Returned =>
        /\ result.options = presentation_default_slide_options
        /\ None \notin {result.options.background, result.options.foreground,
                        result.options.cover, result.options.style, result.options.scale}

(***************************************************************************)
(* The calls of the pipelines as the claims speak of them.                 *)
(***************************************************************************)
\* the positions in calls of the calls of run r
CallsOfRun(r) == {k \in DOMAIN calls : calls[k].render = r}

IsInvocation(c) == c.call = "check_output"

\* an invocation of convert whose last argument is the file it writes
WritesSlide(c) ==
    /\ IsInvocation(c)
    /\ c.arg[1][2] = "convert"
    /\ c.arg[Len(c.arg)][1] = "str"

OutputPath(c) == c.arg[Len(c.arg)][2]

IsFontListing(c) == IsInvocation(c) /\ Len(c.arg) = 3 /\ c.arg[3][2] = "font"

\* out/slide_<i in three digits>.png, for i < 1000
ExpectedName(i) ==
    LET d == <<"0", "1", "2", "3", "4", "5", "6", "7", "8", "9">>
    IN  <<"o", "u", "t", "/", "s", "l", "i", "d", "e", "_">>
        \o <<d[((i \div 100) % 10) + 1], d[((i \div 10) % 10) + 1], d[(i % 10) + 1]>>
        \o <<".", "p", "n", "g">>

\* C11: in every run of a pipeline the directory out is removed if present and
\* then created before any invocation for a slide; the invocations for the slides
\* follow in ascending slide index, the one that writes slide i names
\* out/slide_<i in three digits>.png, no two slides of a run name the same file, and
\* while a run issues invocations out holds exactly the files its slides have written;
\* the command list of Formatter.render() is the removal, the creation and then one
\* command per slide in slide order, the command of slide i naming that same file.
C11_ResetThenAscending ==
    /\ \A r \in 1..renders :
           LET ks == CallsOfRun(r)
           IN  /\ \A k \in ks :
                      IsInvocation(calls[k]) =>
                          \E m \in ks : /\ m < k
                                        /\ calls[m].call = "makedirs"
                                        /\ calls[m].arg = OUT
               /\ \A k \in ks :
                      calls[k].call = "rmtree" =>
                          /\ calls[k].arg = OUT
                          /\ \A m \in ks \ {k} : k < m
               /\ \A j, k \in ks :
                      j < k /\ IsInvocation(calls[j]) /\ IsInvocation(calls[k]) =>
                          calls[j].slide_index <= calls[k].slide_index
               /\ \A j, k \in ks :
                      j < k /\ WritesSlide(calls[j]) /\ WritesSlide(calls[k]) =>
                          /\ calls[j].slide_index < calls[k].slide_index
                          /\ OutputPath(calls[j]) # OutputPath(calls[k])
               /\ \A k \in ks :
                      WritesSlide(calls[k]) =>
                          OutputPath(calls[k]) = ExpectedName(calls[k].slide_index)
    /\ rpc = "execute" =>
           /\ Len(commands) = Len(result.slides) + 2
           /\ commands[1].type = "RmDirCommand" /\ commands[1].path = OUT
           /\ commands[2].type = "MkDirCommand" /\ commands[2].path = OUT
           /\ \A i \in 0..(Len(result.slides) - 1) :
                  /\ commands[i + 3].type = "ExecCommand"
                  /\ commands[i + 3].command[Len(commands[i + 3].command)][2]
                         = ExpectedName(i)
    /\ (\E k \in CallsOfRun(renders) : IsInvocation(calls[k])) =>
           /\ out # None
           /\ out[1] = {ExpectedName(calls[k].slide_index) :
                            k \in {m \in CallsOfRun(renders) :
                                       WritesSlide(calls[m]) /\ calls[m].ok}}

\* a run over a directory out that held a file has removed it and written its two
\* slides
C11_Witness ==
    /\ renders = 1
    /\ calls # <<>>
    /\ calls[1].call = "rmtree"
    /\ \E j, k \in CallsOfRun(1) :
           /\ j < k
           /\ WritesSlide(calls[j]) /\ calls[j].ok
           /\ WritesSlide(calls[k]) /\ calls[k].ok
    /\ out = Some({ExpectedName(0), ExpectedName(1)})

\* the arguments of cmd with the tag, in order
TokensOf(cmd, tag) == SelectSeq(cmd, LAMBDA t : t[1] = tag)

\* the arguments that follow a -strokewidth, in order
StrokeWidths(cmd) ==
    LET ks == {k \in 1..(Len(cmd) - 1) : cmd[k][1] = "lit" /\ cmd[k][2] = "-strokewidth"}
        RECURSIVE from(_)
        from(k) == IF k >= Len(cmd) THEN <<>>
                   ELSE (IF k \in ks THEN <<cmd[k + 1][2]>> ELSE <<>>) \o from(k + 1)
    IN  from(1)

\* this step issues the convert of an image slide with style meme, a caption and scale 1
MemeCaptionConvert ==
    /\ rpc = "text"
    /\ Self.slide.options.style = Some(MEME)
    /\ Self.slide.text # None
    /\ Self.slide.options.scale = Some(Num(1))
    /\ Len(calls') = Len(calls) + 1
    /\ WritesSlide(calls'[Len(calls')])

\* the two caption boxes of cmd are w wide and h / 6 high with stroke width
\* int(min(w, h) / 100), the first offset upward and the second downward by offset_y
CaptionGeometry(cmd, w, h, offset_y) ==
    LET sizes == TokensOf(cmd, "size")
    IN  /\ Len(sizes) = 4
        /\ sizes[3] = Size(Num(w), Frac(h, 6))
        /\ sizes[4] = Size(Num(w), Frac(h, 6))
        /\ StrokeWidths(cmd) = <<str_of_int((IF w <= h THEN w ELSE h) \div 100),
                                 str_of_int((IF w <= h THEN w ELSE h) \div 100)>>
        /\ TokensOf(cmd, "geometry") = <<Geometry("-", offset_y), Geometry("+", offset_y)>>

\* C12 as stated: for footprint (W, H) and scale 1 the two caption boxes are W wide
\* and H/6 high with stroke width min(W, H)/100, the first line offset upward and the
\* second downward from the centre by H/12, half the box height.
C12_Original ==
    [][MemeCaptionConvert =>
           LET size == _background_size(Self).value
           IN  CaptionGeometry(calls'[Len(calls')].arg, size[1], size[2], size[2] \div 12)]_vars

\* C13: once an invocation has failed no further call is made in that run, for the
\* slide or for any later slide, so the failed invocation is not repeated in the run;
\* the run has ended with the error of the failed invocation.
C13_FailureAborts ==
    \A k \in DOMAIN calls :
        IsInvocation(calls[k]) /\ ~calls[k].ok =>
            /\ \A m \in DOMAIN calls : m > k => calls[m].render > calls[k].render
            /\ calls[k].render = renders =>
                   /\ rpc = "raised"
                   /\ raised = CalledProcessError
                   /\ k = Len(calls)

\* an invocation for the first of two or more slides failed and ended the run
C13_Witness ==
    /\ Returned
    /\ Len(result.slides) >= 2
    /\ rpc = "raised"
    /\ calls # <<>>
    /\ ~calls[Len(calls)].ok
    /\ calls[Len(calls)].slide_index = 0
    /\ IsInvocation(calls[Len(calls)])

FontListings_issued == {k \in DOMAIN calls : IsFontListing(calls[k])}

\* the fonts that _get_best_font chose for the commands of the calls: the argument
\* after a -font, and the font_name of pygmentize with its dashes
FontsChosen ==
    UNION {{c.arg[k + 1][2] : k \in {i \in 1..(Len(c.arg) - 1) :
                                         /\ c.arg[i][1] = "lit" /\ c.arg[i][2] = "-font"
                                         /\ c.arg[i + 1][1] = "str"}}
           : c \in {calls[k] : k \in {m \in DOMAIN calls : IsInvocation(calls[m])}}}

FontNamesChosen ==
    UNION {{c.arg[k][2] : k \in {i \in 1..Len(c.arg) : c.arg[i][1] = "font_name"}}
           : c \in {calls[k] : k \in {m \in DOMAIN calls : IsInvocation(calls[m])}}}

\* a call of the renderer for a slide that chooses a font: pygmentize, or the
\* convert of a slide with code or with a text
ChoosesFont(c) ==
    /\ IsInvocation(c)
    /\ commands = NoCommands
    /\ \/ c.arg[1][2] = "pygmentize"
       \/ /\ WritesSlide(c)
          /\ \/ result.slides[c.slide_index + 1].type = "CodeSlide"
             \/ text_of(result.slides[c.slide_index + 1]) # None

\* C14: in one process the font listing is issued at most once: every call of the
\* renderer that chooses a font comes after the listing, which succeeded; the list
\* is cached exactly when the listing has succeeded, and every font a command
\* names is one of the cached list.
C14_ListedOnce ==
    /\ Cardinality(FontListings_issued) <= 1
    /\ \A k \in DOMAIN calls :
           ChoosesFont(calls[k]) => \E j \in FontListings_issued : j < k /\ calls[j].ok
    /\ (available_fonts # None) <=> (\E k \in FontListings_issued : calls[k].ok)
    /\ FontsChosen \cup FontNamesChosen # {} =>
           /\ available_fonts # None
           /\ \A f \in FontsChosen :
                  \E i \in DOMAIN available_fonts[1] : available_fonts[1][i] = f
           /\ \A f \in FontNamesChosen :
                  \E i \in DOMAIN available_fonts[1] : replace_dash(available_fonts[1][i]) = f

\* the fonts were listed once and two slides that choose a font were converted after
\* it, one of them at least naming a font of the list
C14_Witness ==
    /\ \E l \in FontListings_issued :
           /\ calls[l].ok
           /\ \E j, k \in DOMAIN calls :
                  /\ l < j /\ j < k
                  /\ WritesSlide(calls[j]) /\ ChoosesFont(calls[j])
                  /\ WritesSlide(calls[k]) /\ ChoosesFont(calls[k])
                  /\ calls[j].slide_index < calls[k].slide_index
    /\ FontsChosen \cup FontNamesChosen # {}

\* C15: parse() is total up to ParsingError: for every source it returns a
\* Presentation or fails with a ParsingError whose line is an index of a line of the
\* source; it never fails with another kind of error.
C15_TotalUpToParsingError ==
    Done =>
        \/ result.type = "Presentation"
        \/ /\ result.type = "ParsingError"
           /\ result.line \in 0..(Len(RawLines) - 1)

====
